---- MODULE Spec2Model ----
(***************************************************************************)
(* Audio-text synchronization backend: text normalizer, sequence aligner,  *)
(* sliding-window alignment service, timing reconciliation                 *)
(* (SyncService.synchronizeVoiceOverWithPoints) and the script-processing  *)
(* orchestrator (ScriptService.processScript).                             *)
(*                                                                         *)
(* Texts are sequences of one-character strings.  Indices into token and   *)
(* word arrays are 0-based as in the source; element k of a source array   *)
(* is element k+1 of the TLA+ sequence.                                    *)
(***************************************************************************)
EXTENDS Integers, Sequences, FiniteSets, TLC

(***************************************************************************)
(* Bounds of the model.                                                    *)
(***************************************************************************)
MaxSegWords == 2
MaxSegments == 2
MaxTranscriptWords == 3
MaxWordDur == 1
MaxFaults == 1
MaxSections == 2
MaxPoints == 3
MaxOffset == 2
MaxSyncCalls == 2

\* Words at the end of the text that the word-level list may lack.
MaxMissingWords == 1
MaxSegmenterPoints == 2
MaxNormalizerWords == 3
MaxJobs == 1
MaxSockets == 2
MaxResults == 2
MaxJobCalls == 3
MaxStartPosition == 4
MaxClock == 1

(***************************************************************************)
(* Generic helpers.                                                        *)
(***************************************************************************)
Range(s) == {s[i] : i \in 1..Len(s)}

SeqsUpTo(S, n) == UNION {[1..k -> S] : k \in 0..n}

SetMin(S) == CHOOSE x \in S : \A y \in S : x <= y

SetMax(S) == CHOOSE x \in S : \A y \in S : x >= y

Min3(a, b, c) == SetMin({a, b, c})

\* Array.prototype.join(sep)
RECURSIVE joinWith(_, _)
joinWith(ws, sep) ==
  IF ws = <<>> THEN <<>>
  ELSE IF Len(ws) = 1 THEN ws[1]
  ELSE ws[1] \o sep \o joinWith(Tail(ws), sep)

(***************************************************************************)
(* Vocabulary of the bounded inputs.                                       *)
(***************************************************************************)
SegmentVocab == { <<"C", "a", "t", ",">>, <<"d", "o", "g">> }

TranscriptVocab == { <<"d", "o", "g">>, <<"c", "a", "t">>, <<"f", "i", "s", "h">> }

\* Segment texts: up to MaxSegWords words, the empty text and a text of
\* punctuation only.
SegmentTexts ==
  {joinWith(ws, <<" ">>) : ws \in SeqsUpTo(SegmentVocab, MaxSegWords)} \cup {<<"!">>}

(***************************************************************************)
(* TextNormalizer                                                          *)
(***************************************************************************)
toLowerCase(text) ==
  [i \in 1..Len(text) |->
     CASE text[i] = "C" -> "c"
       [] text[i] = "D" -> "d"
       [] text[i] = "G" -> "g"
       [] text[i] = "N" -> "n"
       [] text[i] = "O" -> "o"
       [] text[i] = "T" -> "t"
       [] text[i] = "U" -> "u"
       [] OTHER -> text[i]]

Punctuation == {".", ",", ";", ":", "\"", "'", "!", "?", "(", ")", "[", "]", "{", "}"}

Whitespace == {" ", "\t", "\n"}

\* String.split on a single separator character: the pieces between
\* separators, empty pieces included.
RECURSIVE splitOn(_, _, _)
splitOn(text, seps, cur) ==
  IF text = <<>> THEN <<cur>>
  ELSE IF Head(text) \in seps THEN <<cur>> \o splitOn(Tail(text), seps, <<>>)
  ELSE splitOn(Tail(text), seps, Append(cur, Head(text)))

NonEmpty(t) == Len(t) > 0

\* words-to-numbers on the lower-cased, punctuation-free text: each number
\* word is replaced by its digits.
numberWord(w) ==
  CASE w = <<"t", "w", "o">> -> <<"2">>
    [] w = <<"t", "e", "n">> -> <<"1", "0">>
    [] OTHER -> w

\* The number words words-to-numbers reads as one decimal digit.
UnitWords == {<<"t", "w", "o">>}

\* The words words-to-numbers reads as a decimal point.
DecimalWords == {<<"p", "o", "i", "n", "t">>, <<"d", "o", "t">>}

\* The digits of the unit words pieces[i..], up to the first other piece.
RECURSIVE decimalDigits(_, _)
decimalDigits(pieces, i) ==
  IF i > Len(pieces) \/ pieces[i] \notin UnitWords THEN <<>>
  ELSE numberWord(pieces[i]) \o decimalDigits(pieces, i + 1)

\* words-to-numbers over the pieces from piece i on: a number word followed
\* by a decimal word and unit words becomes one decimal number, any other
\* number word its digits.
RECURSIVE convertPieces(_, _)
convertPieces(pieces, i) ==
  IF i > Len(pieces) THEN <<>>
  ELSE IF /\ numberWord(pieces[i]) # pieces[i]
          /\ i + 2 <= Len(pieces)
          /\ pieces[i + 1] \in DecimalWords
          /\ pieces[i + 2] \in UnitWords
  THEN LET digits == decimalDigits(pieces, i + 2)
       IN <<numberWord(pieces[i]) \o <<".">> \o digits>>
          \o convertPieces(pieces, i + 2 + Len(digits))
  ELSE <<numberWord(pieces[i])>> \o convertPieces(pieces, i + 1)

normalizeNumbers(text) ==
  LET pieces == splitOn(text, {" "}, <<>>)
  IN joinWith(convertPieces(pieces, 1), <<" ">>)

\* replace(/\s+/g, ' ').trim()
collapseWhitespace(text) ==
  joinWith(SelectSeq(splitOn(text, Whitespace, <<>>), NonEmpty), <<" ">>)

normalizeText(text) ==
  LET lowered == toLowerCase(text)
      stripped == SelectSeq(lowered, LAMBDA c : c \notin Punctuation)
      numbered == normalizeNumbers(stripped)
  IN collapseWhitespace(numbered)

\* Variant of tokenize that keeps the empty pieces of the split.
tokenizeUnfiltered(text) ==
  splitOn(normalizeText(text), {" "}, <<>>)

tokenize(text) ==
  LET normalized == normalizeText(text)
  IN SelectSeq(splitOn(normalized, {" "}, <<>>), NonEmpty)

(***************************************************************************)
(* SequenceAligner                                                         *)
(***************************************************************************)
\* fastest-levenshtein distance(a, b)
distance(a, b) ==
  LET D[i \in 0..Len(a), j \in 0..Len(b)] ==
        IF i = 0 THEN j
        ELSE IF j = 0 THEN i
        ELSE Min3(D[i - 1, j] + 1,
                  D[i, j - 1] + 1,
                  D[i - 1, j - 1] + (IF a[i] = b[j] THEN 0 ELSE 1))
  IN D[Len(a), Len(b)]

NoMatch == [refIndex |-> -1, targetIndex |-> -1, distance |-> -1]

\* Variant of bestMatchFrom that replaces the best match on an equal distance.
RECURSIVE bestMatchFromLastMinimum(_, _, _, _, _)
bestMatchFromLastMinimum(refToken, targetTokens, i, j, best) ==
  IF j >= Len(targetTokens) THEN best
  ELSE LET distanceValue == distance(refToken, targetTokens[j + 1])
           next == IF best = NoMatch \/ distanceValue <= best.distance
                   THEN [refIndex |-> i, targetIndex |-> j, distance |-> distanceValue]
                   ELSE best
       IN bestMatchFromLastMinimum(refToken, targetTokens, i, j + 1, next)

\* The inner loop of alignSequences over j, for reference token i (0-based);
\* best is NoMatch while bestMatch is null.
RECURSIVE bestMatchFrom(_, _, _, _, _)
bestMatchFrom(refToken, targetTokens, i, j, best) ==
  IF j >= Len(targetTokens) THEN best
  ELSE LET distanceValue == distance(refToken, targetTokens[j + 1])
           next == IF best = NoMatch \/ distanceValue < best.distance
                   THEN [refIndex |-> i, targetIndex |-> j, distance |-> distanceValue]
                   ELSE best
       IN bestMatchFrom(refToken, targetTokens, i, j + 1, next)

\* The outer loop of alignSequences: one candidate per reference token that
\* has any target.
RECURSIVE rawAlignments(_, _, _)
rawAlignments(referenceTokens, targetTokens, i) ==
  IF i >= Len(referenceTokens) THEN <<>>
  ELSE LET best == bestMatchFrom(referenceTokens[i + 1], targetTokens, i, 0, NoMatch)
       IN (IF best = NoMatch THEN <<>> ELSE <<best>>)
          \o rawAlignments(referenceTokens, targetTokens, i + 1)

\* Array.prototype.sort((a, b) => a[key] - b[key]): stable, ascending.
RECURSIVE insertByKey(_, _, _)
insertByKey(sorted, x, key) ==
  IF sorted = <<>> THEN <<x>>
  ELSE IF x[key] < Head(sorted)[key] THEN <<x>> \o sorted
  ELSE <<Head(sorted)>> \o insertByKey(Tail(sorted), x, key)

RECURSIVE sortByKey(_, _)
sortByKey(s, key) ==
  IF s = <<>> THEN <<>>
  ELSE insertByKey(sortByKey(SubSeq(s, 1, Len(s) - 1), key), s[Len(s)], key)

\* Variant of greedyAccept that only checks the reference index.
RECURSIVE greedyAcceptRefOnly(_, _, _)
greedyAcceptRefOnly(sortedAlignments, usedRefIndices, usedTargetIndices) ==
  IF sortedAlignments = <<>> THEN <<>>
  ELSE LET alignment == Head(sortedAlignments)
       IN IF alignment.refIndex \in usedRefIndices
          THEN greedyAcceptRefOnly(Tail(sortedAlignments), usedRefIndices,
                                   usedTargetIndices)
          ELSE <<alignment>> \o
               greedyAcceptRefOnly(Tail(sortedAlignments),
                                   usedRefIndices \cup {alignment.refIndex},
                                   usedTargetIndices \cup {alignment.targetIndex})

\* The greedy pass of filterAlignments over the distance-sorted candidates.
RECURSIVE greedyAccept(_, _, _)
greedyAccept(sortedAlignments, usedRefIndices, usedTargetIndices) ==
  IF sortedAlignments = <<>> THEN <<>>
  ELSE LET alignment == Head(sortedAlignments)
       IN IF alignment.refIndex \in usedRefIndices
             \/ alignment.targetIndex \in usedTargetIndices
          THEN greedyAccept(Tail(sortedAlignments), usedRefIndices, usedTargetIndices)
          ELSE <<alignment>> \o
               greedyAccept(Tail(sortedAlignments),
                            usedRefIndices \cup {alignment.refIndex},
                            usedTargetIndices \cup {alignment.targetIndex})

filterAlignments(alignments) ==
  LET sortedAlignments == sortByKey(alignments, "distance")
      filteredAlignments == greedyAccept(sortedAlignments, {}, {})
  IN sortByKey(filteredAlignments, "refIndex")

\* distanceRaises: the distance function raises; the catch returns [].
alignSequences(referenceTokens, targetTokens, distanceRaises) ==
  IF distanceRaises /\ referenceTokens # <<>> /\ targetTokens # <<>>
  THEN <<>>
  ELSE filterAlignments(rawAlignments(referenceTokens, targetTokens, 0))

ZeroTiming == [startTime |-> 0, endTime |-> 0, duration |-> 0]

\* Variant of placeholder that leaves the segment's text out.
placeholderWithoutText(segment) ==
  [text |-> <<>>, startTime |-> 0, endTime |-> 0, duration |-> 0]

\* A timing entry with no timing.
placeholder(segment) ==
  [text |-> segment, startTime |-> 0, endTime |-> 0, duration |-> 0]

\* Variant of getSegmentTiming that reads the start from the last word and the
\* end from the first.
getSegmentTimingSwapped(segmentTokens, transcriptWords, alignments) ==
  LET targets == {alignments[k].targetIndex : k \in 1..Len(alignments)}
  IN IF alignments = <<>> THEN ZeroTiming
     ELSE IF SetMin(targets) + 1 \notin DOMAIN transcriptWords
             \/ SetMax(targets) + 1 \notin DOMAIN transcriptWords
     THEN ZeroTiming
     ELSE [startTime |-> transcriptWords[SetMax(targets) + 1].start,
           endTime |-> transcriptWords[SetMin(targets) + 1].end,
           duration |-> transcriptWords[SetMin(targets) + 1].end
                        - transcriptWords[SetMax(targets) + 1].start]

getSegmentTiming(segmentTokens, transcriptWords, alignments) ==
  LET segmentAlignments ==
        SelectSeq(alignments, LAMBDA a : a.refIndex < Len(segmentTokens))
      targets == {segmentAlignments[k].targetIndex : k \in 1..Len(segmentAlignments)}
  IN IF segmentAlignments = <<>> THEN ZeroTiming
     ELSE LET firstTargetIndex == SetMin(targets)
              lastTargetIndex == SetMax(targets)
          IN IF firstTargetIndex + 1 \notin DOMAIN transcriptWords
                \/ lastTargetIndex + 1 \notin DOMAIN transcriptWords
             THEN ZeroTiming
             ELSE LET firstWord == transcriptWords[firstTargetIndex + 1]
                      lastWord == transcriptWords[lastTargetIndex + 1]
                  IN [startTime |-> firstWord.start,
                      endTime |-> lastWord.end,
                      duration |-> lastWord.end - firstWord.start]

(***************************************************************************)
(* Transcription results handed in by the ASR collaborator: words ordered  *)
(* by time with start <= end, and the text the words spell.                *)
(***************************************************************************)
RECURSIVE timedFrom(_, _, _)
timedFrom(ws, durs, t) ==
  IF ws = <<>> THEN <<>>
  ELSE <<[text |-> Head(ws), start |-> t, end |-> t + Head(durs)]>>
       \o timedFrom(Tail(ws), Tail(durs), t + Head(durs))

\* Words of one duration, back to back.
Transcripts(vocab) ==
  UNION { { [text |-> joinWith(ws, <<" ">>),
             words |-> timedFrom(ws, [k \in 1..Len(ws) |-> d], 0)]
            : d \in 1..MaxWordDur }
          : ws \in SeqsUpTo(vocab, MaxTranscriptWords) }

(***************************************************************************)
(* utils/text-processing splitSection, for sentences of at most six words  *)
(* without commas: rules 1 to 4 need a part of more than six words, so     *)
(* every sentence is kept whole.                                           *)
(***************************************************************************)
SentenceEnd == {".", "?", "!"}

\* text.split(/(?<=[.?!])\s+/): cut at each run of whitespace that follows a
\* sentence end; prev is the character before Head(text).
RECURSIVE splitSentences(_, _, _)
splitSentences(text, prev, cur) ==
  IF text = <<>> THEN <<cur>>
  ELSE IF Head(text) \in Whitespace /\ prev \in SentenceEnd
       THEN <<cur>> \o splitSentences(Tail(text), " ", <<>>)
  ELSE IF Head(text) \in Whitespace /\ prev = " " /\ cur = <<>>
       THEN splitSentences(Tail(text), " ", <<>>)
  ELSE splitSentences(Tail(text), Head(text), Append(cur, Head(text)))

RECURSIVE trimStart(_)
trimStart(text) ==
  IF text # <<>> /\ Head(text) \in Whitespace THEN trimStart(Tail(text)) ELSE text

RECURSIVE trimEnd(_)
trimEnd(text) ==
  IF text # <<>> /\ text[Len(text)] \in Whitespace
  THEN trimEnd(SubSeq(text, 1, Len(text) - 1)) ELSE text

trim(text) == trimEnd(trimStart(text))

splitSection(text) ==
  LET pieces == splitSentences(text, "", <<>>)
      trimmed == [k \in 1..Len(pieces) |-> trim(pieces[k])]
  IN SelectSeq(trimmed, NonEmpty)

(***************************************************************************)
(* AssemblyClient.matchTextWithTiming                                      *)
(***************************************************************************)
\* String.prototype.indexOf: 0-based position of the first occurrence, -1 if
\* there is none.
indexOf(text, piece) ==
  LET hits == {i \in 0..(Len(text) - Len(piece)) :
                 SubSeq(text, i + 1, i + Len(piece)) = piece}
  IN IF hits = {} THEN -1 ELSE SetMin(hits)

\* Math.round of the non-negative quotient p / q.
roundQuotient(p, q) == (2 * p + q) \div (2 * q)

\* The loop over words: k is the 1-based index of the word examined,
\* startWord and endWord are word indices, 0 for null.
RECURSIVE findBoundaryWords(_, _, _, _, _, _)
findBoundaryWords(words, k, currentPosition, segmentIndex, segmentLength, startWord) ==
  IF k > Len(words) THEN [startWord |-> startWord, endWord |-> 0]
  ELSE LET wordEndPosition == currentPosition + Len(words[k].text)
           start1 == IF currentPosition >= segmentIndex /\ startWord = 0
                     THEN k ELSE startWord
       IN IF wordEndPosition >= segmentIndex + segmentLength /\ start1 # 0
          THEN [startWord |-> start1, endWord |-> k]
          ELSE findBoundaryWords(words, k + 1, currentPosition + Len(words[k].text) + 1,
                                 segmentIndex, segmentLength, start1)

\* The timing entry of one segment.
matchSegment(text, words, segment) ==
  LET segmentLower == toLowerCase(segment)
      textLower == toLowerCase(text)
      segmentIndex == indexOf(textLower, segmentLower)
      found == findBoundaryWords(words, 1, 0, segmentIndex, Len(segmentLower), 0)
  IN IF segmentIndex = -1 THEN placeholder(segment)
     ELSE IF found.startWord # 0 /\ found.endWord # 0
     THEN [text |-> segment,
           startTime |-> words[found.startWord].start,
           endTime |-> words[found.endWord].end,
           duration |-> words[found.endWord].end - words[found.startWord].start]
     ELSE IF Len(words) > 0
     THEN LET firstWord == words[1]
              lastWord == words[Len(words)]
              totalDuration == lastWord.end - firstWord.start
              total == Len(textLower)
              startNum == firstWord.start * total + totalDuration * segmentIndex
              endNum == firstWord.start * total
                        + totalDuration * (segmentIndex + Len(segmentLower))
          IN [text |-> segment,
              startTime |-> roundQuotient(startNum, total),
              endTime |-> roundQuotient(endNum, total),
              duration |-> roundQuotient(endNum - startNum, total)]
     ELSE placeholder(segment)

matchTextWithTiming(text, words, segmentList) ==
  [k \in 1..Len(segmentList) |-> matchSegment(text, words, segmentList[k])]

(***************************************************************************)
(* SyncService.synchronizeVoiceOverWithPoints                              *)
(***************************************************************************)
\* Buffer time added at the end of each section, in milliseconds.
SECTION_END_BUFFER == 500

\* The value of an optional number field that is not set.
Undefined == -1

\* x || 0 for an optional number.
orZero(x) == IF x = Undefined THEN 0 ELSE x

\* originalTimings[i] || { startTime: 0, endTime: 0 }, i 0-based.
timingAt(originalTimings, i) ==
  IF i + 1 \in DOMAIN originalTimings THEN originalTimings[i + 1] ELSE ZeroTiming

\* First pass, from point i (0-based) on: set the start times.
RECURSIVE setStartTimes(_, _, _, _)
setStartTimes(points, originalTimings, sectionOffset, i) ==
  IF i >= Len(points) THEN points
  ELSE LET startTime ==
             IF i = 0 THEN sectionOffset
             ELSE IF points[i].endTime # Undefined THEN points[i].endTime
             ELSE sectionOffset + timingAt(originalTimings, i).startTime
       IN setStartTimes([points EXCEPT ![i + 1].startTime = startTime],
                        originalTimings, sectionOffset, i + 1)

\* Variant of setEndTimes that ends every point at its start plus its own
\* raw duration.
RECURSIVE setEndTimesOwnDuration(_, _, _)
setEndTimesOwnDuration(points, originalTimings, i) ==
  IF i >= Len(points) THEN points
  ELSE LET originalTiming == timingAt(originalTimings, i)
           endTime == orZero(points[i + 1].startTime)
                      + (originalTiming.endTime - originalTiming.startTime)
       IN setEndTimesOwnDuration([points EXCEPT ![i + 1].endTime = endTime],
                                 originalTimings, i + 1)

\* Second pass, from point i (0-based) on: set the end times.
RECURSIVE setEndTimes(_, _, _)
setEndTimes(points, originalTimings, i) ==
  IF i >= Len(points) THEN points
  ELSE LET originalTiming == timingAt(originalTimings, i)
           originalDuration == originalTiming.endTime - originalTiming.startTime
           endTime ==
             IF i < Len(points) - 1 /\ points[i + 2].startTime # Undefined
             THEN points[i + 2].startTime
             ELSE orZero(points[i + 1].startTime) + originalDuration
       IN setEndTimes([points EXCEPT ![i + 1].endTime = endTime], originalTimings, i + 1)

\* Variant of addEndBuffer that keeps the buffer in sectionEndTime only.
addEndBufferToSectionOnly(section, originalTimings) ==
  LET n == Len(section.points)
  IN IF n > 0 /\ section.points[n].endTime # Undefined
     THEN [section EXCEPT !.sectionEndTime = section.points[n].endTime + SECTION_END_BUFFER]
     ELSE [section EXCEPT !.sectionEndTime =
             orZero(section.sectionOffset) + SECTION_END_BUFFER]

\* The buffer on the last point and the section end time.
addEndBuffer(section, originalTimings) ==
  LET n == Len(section.points)
  IN IF n > 0 /\ section.points[n].endTime # Undefined
     THEN LET endTime == section.points[n].endTime + SECTION_END_BUFFER
          IN [section EXCEPT !.points[n].endTime = endTime, !.sectionEndTime = endTime]
     ELSE LET lastTiming == IF Len(originalTimings) > 0
                            THEN originalTimings[Len(originalTimings)] ELSE ZeroTiming
          IN [section EXCEPT !.sectionEndTime =
                orZero(section.sectionOffset) + lastTiming.endTime + SECTION_END_BUFFER]

\* The part of the method after the timings are known: section offset, the
\* two passes and the buffer.
reconcile(section, timings, previousSectionEndTime) ==
  LET sectionOffset == orZero(previousSectionEndTime)
      started == setStartTimes(section.points, timings, sectionOffset, 0)
      ended == setEndTimes(started, timings, 0)
  IN addEndBuffer([section EXCEPT !.sectionOffset = sectionOffset, !.points = ended],
                  timings)

\* The PointWithTiming array returned to the caller; the times are integers,
\* which Math.round leaves as they are.
pointsWithTiming(section) ==
  [k \in 1..Len(section.points) |->
     [text |-> section.points[k].text,
      videoId |-> section.points[k].videoId,
      videoUrl |-> section.points[k].videoUrl,
      videoThumbnail |-> section.points[k].videoThumbnail,
      startTime |-> orZero(section.points[k].startTime),
      endTime |-> orZero(section.points[k].endTime),
      duration |-> orZero(section.points[k].endTime)
                   - orZero(section.points[k].startTime)]]

NoVoiceOver == [status |-> "absent", audioUrl |-> FALSE]

\* The record generateVoiceOver stores.
PendingVoiceOver == [status |-> "pending", audioUrl |-> FALSE]

\* The bodies the TTS service may post to the webhook: the event ("undefined"
\* when it is left out), whether data.media_url is there, and data.status.
WebhookPayloads ==
  [event : {"TTS_TEXT_SUCCESS", "TTS_TEXT_FAILED", "undefined"},
   mediaUrl : BOOLEAN, status : {2, 3}]

\* TTSClient.processWebhookPayload: success and whether there is an audioUrl.
processWebhookPayload(payload) ==
  LET success == \/ payload.event = "TTS_TEXT_SUCCESS"
                 \/ (payload.mediaUrl /\ payload.status = 2)
  IN IF success /\ payload.mediaUrl
     THEN [success |-> TRUE, audioUrl |-> TRUE]
     ELSE [success |-> FALSE, audioUrl |-> FALSE]

\* Variant of the poll that returns only for a completed voice-over.
pollResultOnlyWhenCompleted(voiceOver) ==
  IF voiceOver.status = "completed" /\ voiceOver.audioUrl THEN "voiceOver" ELSE "again"

\* One iteration of the loop of waitForVoiceOverCompletion on what
\* getVoiceOver returned: the value returned, or "again" for another poll.
pollResult(voiceOver) ==
  IF voiceOver.status = "absent" THEN "null"
  ELSE IF voiceOver.status = "completed" /\ voiceOver.audioUrl THEN "voiceOver"
  ELSE IF voiceOver.status = "failed" THEN "null"
  ELSE "again"

\* VoiceService.updateVoiceOverStatus: the store afterwards; nothing is
\* stored for a uuid that has no record.
updateVoiceOverStatus(store, uuid, reported) ==
  IF uuid \notin DOMAIN store THEN store
  ELSE [store EXCEPT ![uuid] =
          [status |-> IF reported.success THEN "completed" ELSE "failed",
           audioUrl |-> reported.success /\ reported.audioUrl]]

\* Variant of the method without the check of the transcribed words.
synchronizeWithoutWordCheck(voiceOver, section, previousSectionEndTime, existingTranscript, transcribed) ==
  LET failed(message) == [threw |-> TRUE, outcome |-> message, section |-> section,
                          timings |-> <<>>, returned |-> <<>>]
      useExisting == existingTranscript.given /\ Len(existingTranscript.words) > 0
      transcript == IF useExisting THEN existingTranscript ELSE transcribed
      pointTexts == [k \in 1..Len(section.points) |-> section.points[k].text]
      timings == matchTextWithTiming(transcript.text, transcript.words, pointTexts)
      updated == reconcile(section, timings, previousSectionEndTime)
  IN IF ~useExisting /\ voiceOver.status = "absent"
     THEN failed("voice-over not found")
     ELSE IF ~useExisting /\ (voiceOver.status # "completed" \/ ~voiceOver.audioUrl)
     THEN failed("voice-over not completed")
     ELSE IF ~useExisting /\ transcribed.threw
     THEN failed("failed to transcribe audio")
     ELSE [threw |-> FALSE, outcome |-> "returned", section |-> updated,
           timings |-> timings, returned |-> pointsWithTiming(updated)]

NoTranscript == [given |-> FALSE, text |-> <<>>, words |-> <<>>]

\* voiceOver: the stored voice-over of voiceOverId (NoVoiceOver if none);
\* existingTranscript: the optional fourth argument, words <<>> when the words
\* are missing or empty; transcribed: what transcribeAudio gives if it is
\* called ([threw, text, words]).
\* Returns threw, outcome ("returned" or the error raised), the section as
\* the call leaves it, the timings used and the returned array.
synchronizeVoiceOverWithPoints(voiceOver, section, previousSectionEndTime, existingTranscript, transcribed) ==
  LET failed(message) == [threw |-> TRUE, outcome |-> message, section |-> section,
                          timings |-> <<>>, returned |-> <<>>]
      useExisting == existingTranscript.given /\ Len(existingTranscript.words) > 0
      transcript == IF useExisting THEN existingTranscript ELSE transcribed
      pointTexts == [k \in 1..Len(section.points) |-> section.points[k].text]
      timings == matchTextWithTiming(transcript.text, transcript.words, pointTexts)
      updated == reconcile(section, timings, previousSectionEndTime)
  IN IF ~useExisting /\ voiceOver.status = "absent"
     THEN failed("voice-over not found")
     ELSE IF ~useExisting /\ (voiceOver.status # "completed" \/ ~voiceOver.audioUrl)
     THEN failed("voice-over not completed")
     ELSE IF ~useExisting /\ transcribed.threw
     THEN failed("failed to transcribe audio")
     ELSE IF ~useExisting /\ Len(transcribed.words) = 0
     THEN failed("no word-level details")
     ELSE [threw |-> FALSE, outcome |-> "returned", section |-> updated,
           timings |-> timings, returned |-> pointsWithTiming(updated)]

(***************************************************************************)
(* TranscriptSegmenter                                                     *)
(***************************************************************************)
\* The characters normalizeText of the segmenter removes (the grave accent,
\* which the texts here never hold, is left out).
SegmenterPunctuation ==
  {".", ",", "/", "#", "!", "$", "%", "^", "&", "*", ";", ":", "{", "}", "=", "-",
   "_", "~", "(", ")"}

\* TranscriptSegmenter.normalizeText
segmenterNormalizeText(text) ==
  LET lowered == toLowerCase(text)
      stripped == SelectSeq(lowered, LAMBDA c : c \notin SegmenterPunctuation)
  IN collapseWhitespace(stripped)

\* String.prototype.indexOf(piece, fromIndex)
indexOfFrom(text, piece, fromIndex) ==
  LET from == IF fromIndex < 0 THEN 0 ELSE fromIndex
      hits == {i \in from..(Len(text) - Len(piece)) :
                 SubSeq(text, i + 1, i + Len(piece)) = piece}
  IN IF piece = <<>> THEN (IF from < Len(text) THEN from ELSE Len(text))
     ELSE IF hits = {} THEN -1 ELSE SetMin(hits)

\* String.prototype.substring(from, to) for 0 <= from, to.
substring(text, from, to) ==
  LET a == IF from < to THEN from ELSE to
      b == IF from < to THEN to ELSE from
      hi == IF b < Len(text) THEN b ELSE Len(text)
  IN SubSeq(text, a + 1, hi)

\* generateNGrams: the n-grams of a word list, as word sequences.
generateNGrams(words, n) ==
  IF Len(words) < n THEN <<>>
  ELSE [i \in 1..(Len(words) - n + 1) |-> SubSeq(words, i, i + n - 1)]

\* The n-gram part of calculateSimilarity: sequenceMatches summed over the
\* n-gram sizes nGramSize..maxNGramSize.
RECURSIVE sequenceMatches(_, _, _, _)
sequenceMatches(words1, words2, nGramSize, maxNGramSize) ==
  IF nGramSize > maxNGramSize THEN 0
  ELSE LET nGrams1 == generateNGrams(words1, nGramSize)
           nGrams2 == Range(generateNGrams(words2, nGramSize))
           matching == Cardinality({i \in 1..Len(nGrams1) : nGrams1[i] \in nGrams2})
       IN matching * nGramSize
          + sequenceMatches(words1, words2, nGramSize + 1, maxNGramSize)

\* The weighted sum of calculateSimilarity, as the exact fraction num / den
\* of lenRatio * 0.2 + wordSimilarity * 0.4 + sequenceSimilarity * 0.4.
weightedScore(shorter, longer, matchingWords, largerSet, matches) ==
  LET maxPossibleMatches == longer * 2
      capped == SetMin({matches, maxPossibleMatches})
  IN [num |-> shorter * largerSet * maxPossibleMatches
              + 2 * matchingWords * longer * maxPossibleMatches
              + 2 * capped * longer * largerSet,
      den |-> 5 * longer * largerSet * maxPossibleMatches]

\* calculateSimilarity on the word lists of the two texts.
wordListSimilarity(words1, words2) ==
  weightedScore(SetMin({Len(words1), Len(words2)}),
                SetMax({Len(words1), Len(words2)}),
                Cardinality({w \in Range(words1) : w \in Range(words2) /\ Len(w) > 2}),
                SetMax({Cardinality(Range(words1)), Cardinality(Range(words2))}),
                sequenceMatches(words1, words2, 2,
                                SetMin({4, Len(words1) \div 2, Len(words2) \div 2})))

calculateSimilarity(str1, str2) ==
  IF str1 = <<>> \/ str2 = <<>> THEN [num |-> 0, den |-> 1]
  ELSE IF str1 = str2 THEN [num |-> 1, den |-> 1]
  ELSE wordListSimilarity(splitOn(str1, {" "}, <<>>), splitOn(str2, {" "}, <<>>))

\* a > b for two scores.  The code compares floating-point sums; where the
\* exact scores are equal and not both trivially 0 or 1 the rounding of the
\* sums decides, which roundsUp stands for.
scoreAbove(a, b, roundsUp) ==
  IF a.num * b.den = b.num * a.den
  THEN roundsUp /\ a.num # 0 /\ a.num # a.den
  ELSE a.num * b.den > b.num * a.den

AcceptThreshold == [num |-> 4, den |-> 10]

StopThreshold == [num |-> 7, den |-> 10]

NoWindow == [index |-> -1, similarity |-> [num |-> 0, den |-> 1], stop |-> FALSE]

\* The context window at an occurrence of a word and its similarity.
window(contextStart, similarity, roundsUp) ==
  [index |-> contextStart, similarity |-> similarity,
   stop |-> scoreAbove(similarity, StopThreshold, roundsUp)]

windowAt(normalizedPoint, normalizedTranscript, wordIndex, roundsUp) ==
  window(SetMax({wordIndex - 20, 0}),
         calculateSimilarity(normalizedPoint,
           substring(normalizedTranscript, SetMax({wordIndex - 20, 0}),
                     SetMin({wordIndex + SetMin({Len(normalizedPoint) * 2, 200}),
                             Len(normalizedTranscript)}))),
         roundsUp)

\* The while loop over the occurrences of one word from searchPos on;
\* scanFrom is its body at the occurrence wordIndex.
RECURSIVE scanOccurrences(_, _, _, _, _, _)
RECURSIVE scanFrom(_, _, _, _, _, _, _)
scanFromNoBreak(normalizedPoint, normalizedTranscript, word, wordIndex, found, best, roundsUp) ==
  LET better == /\ scoreAbove(found.similarity, best.similarity, roundsUp)
                /\ scoreAbove(found.similarity, AcceptThreshold, roundsUp)
  IN scanOccurrences(normalizedPoint, normalizedTranscript, word,
                     wordIndex + Len(word), IF better THEN found ELSE best, roundsUp)

scanFrom(normalizedPoint, normalizedTranscript, word, wordIndex, found, best, roundsUp) ==
  LET better == /\ scoreAbove(found.similarity, best.similarity, roundsUp)
                /\ scoreAbove(found.similarity, AcceptThreshold, roundsUp)
  IN IF better /\ found.stop THEN found
     ELSE scanOccurrences(normalizedPoint, normalizedTranscript, word,
                          wordIndex + Len(word), IF better THEN found ELSE best,
                          roundsUp)

scanOccurrences(normalizedPoint, normalizedTranscript, word, searchPos, best, roundsUp) ==
  LET wordIndex == indexOfFrom(normalizedTranscript, word, searchPos)
  IN IF wordIndex = -1 THEN best
     ELSE scanFrom(normalizedPoint, normalizedTranscript, word, wordIndex,
                   windowAt(normalizedPoint, normalizedTranscript, wordIndex, roundsUp),
                   best, roundsUp)

\* The for loop over wordsToUse, from word k (1-based) on; scanNextWord is
\* what follows the while loop of word k.
RECURSIVE scanWords(_, _, _, _, _, _, _)
RECURSIVE scanNextWord(_, _, _, _, _, _, _)
scanNextWord(normalizedPoint, normalizedTranscript, wordsToUse, k, startPosition, after, roundsUp) ==
  IF scoreAbove(after.similarity, StopThreshold, roundsUp) THEN after
  ELSE scanWords(normalizedPoint, normalizedTranscript, wordsToUse, k + 1,
                 startPosition, after, roundsUp)

scanWords(normalizedPoint, normalizedTranscript, wordsToUse, k, startPosition, best, roundsUp) ==
  IF k > Len(wordsToUse) THEN best
  ELSE scanNextWord(normalizedPoint, normalizedTranscript, wordsToUse, k, startPosition,
                    scanOccurrences(normalizedPoint, normalizedTranscript,
                                    wordsToUse[k], startPosition, best, roundsUp),
                    roundsUp)

\* The words the fuzzy search looks for: the words longer than 3 letters,
\* or the first 3 words if there are none.
wordsToUseOf(words) ==
  IF Len(SelectSeq(words, LAMBDA w : Len(w) > 3)) > 0
  THEN SelectSeq(words, LAMBDA w : Len(w) > 3)
  ELSE SubSeq(words, 1, SetMin({3, Len(words)}))

\* findBestMatch on the normalized texts.
findNormalizedMatch(normalizedPoint, normalizedTranscript, words, startPosition, roundsUp) ==
  LET exactMatchIndex == indexOfFrom(normalizedTranscript, normalizedPoint, startPosition)
      shortPhraseIndex ==
        IF Len(words) <= 3 /\ Len(words) >= 2
        THEN indexOfFrom(normalizedTranscript, joinWith(SubSeq(words, 1, 2), <<" ">>),
                         startPosition)
        ELSE -1
  IN IF exactMatchIndex # -1 THEN [index |-> exactMatchIndex, branch |-> "exact"]
     ELSE IF shortPhraseIndex # -1 THEN [index |-> shortPhraseIndex, branch |-> "short"]
     ELSE [index |-> scanWords(normalizedPoint, normalizedTranscript,
                               wordsToUseOf(words), 1, startPosition, NoWindow,
                               roundsUp).index,
           branch |-> "fuzzy"]

\* findBestMatch: [index, branch], index -1 when nothing is found.
findBestMatchDetail(point, transcript, startPosition, roundsUp) ==
  findNormalizedMatch(segmenterNormalizeText(point), segmenterNormalizeText(transcript),
                      splitOn(segmenterNormalizeText(point), {" "}, <<>>),
                      startPosition, roundsUp)

findBestMatch(point, transcript, startPosition, roundsUp) ==
  findBestMatchDetail(point, transcript, startPosition, roundsUp).index

(***************************************************************************)
(* State.                                                                  *)
(***************************************************************************)
VARIABLES
  alignPc,                \* position in alignSegmentsWithTranscript
  transcriptText,         \* argument transcriptText
  transcriptWords,        \* argument transcriptWords
  segments,               \* argument segments
  transcriptTokens,       \* local transcriptTokens
  currentTranscriptIndex, \* local currentTranscriptIndex (the cursor)
  results,                \* local results
  segmentIndex,           \* number of loop iterations completed
  matchedTargets,         \* per iteration: targetIndex values of globalAlignments
  faults,                 \* number of raised errors so far in this call
  lastAlignCall,          \* arguments and result of the latest alignSequences call
  pc,                     \* position in ScriptService.processScript
  script,                 \* the texts of the sections parsed from request.script
  request,                \* generateVoiceOver and syncAudio of the request
  voiceOvers,             \* VoiceService.voiceOvers
  webhooks,               \* the voice-overs whose webhook the TTS service has yet to send
  sectionIndex,           \* index i of the voice-over loop (1-based)
  sectionsWithVoiceOvers, \* local sectionsWithVoiceOvers, as section numbers
  stepIndex,              \* position of the processing loop in sectionsWithVoiceOvers
  audio,                  \* what the audio of the section at hand contains
  transcript,             \* local transcript of the section at hand
  processedSection,       \* the ProcessedSection handed to the sync service
  processedSections,      \* local processedSections
  previousSectionEndTime, \* local previousSectionEndTime
  result,                 \* the value processScript resolves to
  failedSections,         \* sections whose transcription or synchronization failed
  videoSearches,          \* the calls of findVideoForPoint made so far
  syncOutcome,            \* how the latest synchronizeVoiceOverWithPoints call ended
  originalTimings,        \* local originalTimings of that call
  syncHadWords,           \* whether word-level data was available to that call
  syncCalls,              \* number of calls made on processedSection
  segmenterCall,          \* which TranscriptSegmenter method has been called
  segmenterTranscript,    \* argument transcript of that call
  segmenterScript,        \* argument originalScript, as its paragraphs
  segmenterSection,       \* argument section of segmentSectionTranscript
  segmenterOutput,        \* the sections the call returned
  segmenterMatch,         \* a call of findBestMatch: its arguments and what it returned
  reconcileSection,       \* the section both reconciliations start from
  reconcileOffset,        \* previousSectionEndTime of both reconciliations
  reconcileRaw,           \* the raw timing lists of the two reconciliations
  reconcileOut,           \* the sections after the two reconciliations
  normalizerCall,         \* which TextNormalizer method has been called
  normalizerText,         \* argument text of that call
  normalized,             \* what normalizeText returned for the text
  normalizedAgain,        \* what normalizeText returned for that result
  tokens,                 \* what tokenize returned for the text
  jobs,                   \* JobService.jobs
  subscribers,            \* JobService.subscribers: the set under each job, {} if none
  subscriberKeys,         \* the jobs JobService.subscribers has an entry for
  sockets,                \* each WebSocket: whether opened or closed, and on which job
  sent,                   \* the updates passed to each WebSocket's send, in order
  lastGet,                \* the response of the latest GET /jobs/:jobId, until its job changes
  jobChanges,             \* per job: its state after each status change, in order
  subscription,           \* per subscribed WebSocket: the job and the logs when it subscribed
  completedWith,          \* per job: the result of its latest completion call
  jobCalls,               \* number of job-changing calls made so far
  clock,                  \* the time a new Date() or Date.now() reads
  cleanupCall             \* the cleanupOldJobs calls made: how many, the latest maxAgeMs, what it removed

alignVars == <<alignPc, transcriptText, transcriptWords, segments, transcriptTokens,
               currentTranscriptIndex, results, segmentIndex, matchedTargets,
               faults, lastAlignCall>>

scriptVars == <<pc, script, request, voiceOvers, webhooks, sectionIndex, sectionsWithVoiceOvers,
                stepIndex, audio, transcript, processedSections,
                previousSectionEndTime, result, failedSections, videoSearches>>

syncVars == <<processedSection, syncOutcome, originalTimings, syncHadWords, syncCalls>>

segmenterVars == <<segmenterCall, segmenterTranscript, segmenterScript, segmenterSection,
                   segmenterOutput, segmenterMatch>>

reconcileVars == <<reconcileSection, reconcileOffset, reconcileRaw, reconcileOut>>

normalizerVars == <<normalizerCall, normalizerText, normalized, normalizedAgain, tokens>>

jobVars == <<jobs, subscribers, subscriberKeys, sockets, sent, lastGet, jobChanges, subscription,
             completedWith, jobCalls, clock, cleanupCall>>

laterVars == <<segmenterVars, reconcileVars, normalizerVars, jobVars>>

vars == <<alignVars, scriptVars, syncVars, laterVars>>

NoCall == [called |-> FALSE, referenceTokens |-> <<>>, targetTokens |-> <<>>,
           alignments |-> <<>>]

NoSection == [sectionId |-> 0, points |-> <<>>, sectionOffset |-> Undefined,
              sectionEndTime |-> Undefined, voiceOverId |-> 0, audioUrl |-> FALSE]

\* No call of alignSegmentsWithTranscript is under way.
AlignIdle ==
  /\ alignPc = "idle"
  /\ transcriptText = <<>>
  /\ transcriptWords = <<>>
  /\ segments = <<>>
  /\ transcriptTokens = <<>>
  /\ currentTranscriptIndex = 0
  /\ results = <<>>
  /\ segmentIndex = 0
  /\ matchedTargets = <<>>
  /\ faults = 0
  /\ lastAlignCall = NoCall

\* No processScript is under way.
ScriptIdle ==
  /\ pc = "idle"
  /\ script = <<>>
  /\ request = [generateVoiceOver |-> FALSE, syncAudio |-> FALSE]
  /\ voiceOvers = <<>>
  /\ webhooks = {}
  /\ sectionIndex = 0
  /\ sectionsWithVoiceOvers = <<>>
  /\ stepIndex = 0
  /\ audio = NoTranscript
  /\ transcript = NoTranscript
  /\ processedSections = <<>>
  /\ previousSectionEndTime = 0
  /\ result = <<>>
  /\ failedSections = {}
  /\ videoSearches = <<>>

\* No section has been handed to the sync service.
SyncIdle ==
  /\ processedSection = NoSection
  /\ syncOutcome = "none"
  /\ originalTimings = <<>>
  /\ syncHadWords = FALSE
  /\ syncCalls = 0

NoInputSection == [id |-> 0, text |-> <<>>, points |-> <<>>]

NoMatchCall == [point |-> <<>>, startPosition |-> 0, roundsUp |-> FALSE,
                index |-> -1, branch |-> "none"]

\* No TranscriptSegmenter method has been called.
SegmenterIdle ==
  /\ segmenterCall = "none"
  /\ segmenterTranscript = <<>>
  /\ segmenterScript = <<>>
  /\ segmenterSection = NoInputSection
  /\ segmenterOutput = <<>>
  /\ segmenterMatch = NoMatchCall

\* No pair of reconciliations has been made.
ReconcileIdle ==
  /\ reconcileSection = NoSection
  /\ reconcileOffset = 0
  /\ reconcileRaw = <<>>
  /\ reconcileOut = <<>>

\* No TextNormalizer method has been called on its own.
NormalizerIdle ==
  /\ normalizerCall = "none"
  /\ normalizerText = <<>>
  /\ normalized = <<>>
  /\ normalizedAgain = <<>>
  /\ tokens = <<>>

\* The job identifiers requests may name: those of the jobs created, and one
\* more that no job ever has.
JobIds == 1..(MaxJobs + 1)

Sockets == 1..MaxSockets

NoJob == [exists |-> FALSE, status |-> "none", progress |-> Undefined,
          message |-> "none", result |-> 0, completedAt |-> Undefined]

NoCleanup == [count |-> 0, maxAgeMs |-> 0, removed |-> {}]

NoSubscription == [jobId |-> 0, sentBefore |-> 0, changesBefore |-> 0, job |-> NoJob]

NoResponse == [success |-> FALSE, jobId |-> 0, status |-> "none", progress |-> Undefined,
               message |-> "none", result |-> 0]

\* The job service as constructed: no job, no subscriber.
JobsEmpty ==
  /\ jobs = [id \in JobIds |-> NoJob]
  /\ subscribers = [id \in JobIds |-> {}]
  /\ subscriberKeys = {}
  /\ sockets = [ws \in Sockets |-> [state |-> "new", jobId |-> 0]]
  /\ sent = [ws \in Sockets |-> <<>>]
  /\ lastGet = NoResponse
  /\ jobChanges = [id \in JobIds |-> <<>>]
  /\ subscription = [ws \in Sockets |-> NoSubscription]
  /\ completedWith = [id \in JobIds |-> 0]
  /\ jobCalls = 0
  /\ clock = 0
  /\ cleanupCall = NoCleanup

LaterIdle ==
  /\ SegmenterIdle
  /\ ReconcileIdle
  /\ NormalizerIdle
  /\ JobsEmpty

(***************************************************************************)
(* TextAlignmentService.alignSegmentsWithTranscript                        *)
(***************************************************************************)
AlignInit ==
  /\ alignPc = "idle"
  /\ \E tr \in Transcripts(TranscriptVocab), missing \in 0..MaxMissingWords :
        /\ missing <= Len(tr.words)
        /\ transcriptText = tr.text
        /\ transcriptWords = SubSeq(tr.words, 1, Len(tr.words) - missing)
  /\ segments = <<>>
  /\ transcriptTokens = <<>>
  /\ currentTranscriptIndex = 0
  /\ results = <<>>
  /\ segmentIndex = 0
  /\ matchedTargets = <<>>
  /\ faults = 0
  /\ lastAlignCall = NoCall
  /\ ScriptIdle
  /\ SyncIdle
  /\ LaterIdle

\* Entry of the call: tokenize the transcript, reset the cursor.
AlignStart ==
  /\ alignPc = "idle"
  /\ \E segs \in SeqsUpTo(SegmentTexts, MaxSegments) : segments' = segs
  /\ transcriptTokens' = tokenize(normalizeText(transcriptText))
  /\ currentTranscriptIndex' = 0
  /\ results' = <<>>
  /\ segmentIndex' = 0
  /\ matchedTargets' = <<>>
  /\ faults' = 0
  /\ alignPc' = "loop"
  /\ UNCHANGED <<transcriptText, transcriptWords, lastAlignCall, scriptVars, syncVars, laterVars>>

\* Variant of toGlobalAlignments that leaves the window-relative indices.
toWindowAlignments(localAlignments, cursor) ==
  localAlignments

\* Translation of local target indices to indices into the whole transcript.
toGlobalAlignments(localAlignments, cursor) ==
  [k \in 1..Len(localAlignments) |->
     [localAlignments[k] EXCEPT !.targetIndex = localAlignments[k].targetIndex + cursor]]

\* Variant of advanceCursor that takes the last alignment of the list instead
\* of the largest target index.
advanceCursorLastEntry(globalAlignments, cursor) ==
  IF Len(globalAlignments) > 0
  THEN globalAlignments[Len(globalAlignments)].targetIndex + 1
  ELSE cursor

\* The cursor after a segment with alignments: last matched token + 1.
advanceCursor(globalAlignments, cursor) ==
  IF Len(globalAlignments) > 0
  THEN SetMax({globalAlignments[k].targetIndex : k \in 1..Len(globalAlignments)}) + 1
  ELSE cursor

\* Variant of unmatchedSegment that skips the segment without an entry.
unmatchedSegmentSkipped(segment) ==
  [pushed |-> <<>>, cursor |-> currentTranscriptIndex,
   targets |-> {}, call |-> lastAlignCall, raised |-> FALSE]

\* The three early exits of an iteration: push a placeholder and continue
\* with the cursor unchanged.
unmatchedSegment(segment) ==
  [pushed |-> <<placeholder(segment)>>, cursor |-> currentTranscriptIndex,
   targets |-> {}, call |-> lastAlignCall, raised |-> FALSE]

\* The body of one loop iteration that runs to the end of the try block.
\* distanceRaises: the distance function raises inside alignSequences.
\* pushed: the entries appended to results; raised: alignSequences was
\* called and its catch block ran.
alignOneSegment(segment, distanceRaises) ==
  LET segmentTokens == tokenize(normalizeText(segment))
      remainingTranscriptTokens ==
        SubSeq(transcriptTokens, currentTranscriptIndex + 1, Len(transcriptTokens))
      localAlignments ==
        alignSequences(segmentTokens, remainingTranscriptTokens, distanceRaises)
      globalAlignments == toGlobalAlignments(localAlignments, currentTranscriptIndex)
      timing == getSegmentTiming(segmentTokens, transcriptWords, globalAlignments)
      unmatched == unmatchedSegment(segment)
  IN IF segmentTokens = <<>> THEN unmatched
     ELSE IF remainingTranscriptTokens = <<>> THEN unmatched
     ELSE LET call == [called |-> TRUE, referenceTokens |-> segmentTokens,
                       targetTokens |-> remainingTranscriptTokens,
                       alignments |-> localAlignments]
          IN IF localAlignments = <<>>
             THEN [unmatched EXCEPT !.call = call, !.raised = distanceRaises]
             ELSE [pushed |-> <<[text |-> segment, startTime |-> timing.startTime,
                                 endTime |-> timing.endTime,
                                 duration |-> timing.duration]>>,
                   cursor |-> advanceCursor(globalAlignments, currentTranscriptIndex),
                   targets |-> {globalAlignments[k].targetIndex
                                  : k \in 1..Len(globalAlignments)},
                   call |-> call, raised |-> FALSE]

\* One iteration of the loop over segments, no step raising outside
\* alignSequences.
AlignSegment ==
  /\ alignPc = "loop"
  /\ segmentIndex < Len(segments)
  /\ \E distanceRaises \in {FALSE} \cup {faults < MaxFaults} :
      \E out \in {alignOneSegment(segments[segmentIndex + 1], distanceRaises)} :
        /\ distanceRaises => out.raised
        /\ results' = results \o out.pushed
        /\ currentTranscriptIndex' = out.cursor
        /\ matchedTargets' = Append(matchedTargets, out.targets)
        /\ lastAlignCall' = out.call
        /\ faults' = IF out.raised THEN faults + 1 ELSE faults
  /\ segmentIndex' = segmentIndex + 1
  /\ UNCHANGED <<alignPc, transcriptText, transcriptWords, segments, transcriptTokens,
                 scriptVars, syncVars, laterVars>>

\* One iteration in which a step of the try block raises before the result
\* is pushed: the catch pushes a placeholder.
AlignSegmentRaises ==
  /\ alignPc = "loop"
  /\ segmentIndex < Len(segments)
  /\ faults < MaxFaults
  /\ faults' = faults + 1
  /\ results' = results \o <<placeholder(segments[segmentIndex + 1])>>
  /\ matchedTargets' = Append(matchedTargets, {})
  /\ segmentIndex' = segmentIndex + 1
  /\ UNCHANGED <<alignPc, transcriptText, transcriptWords, segments, transcriptTokens,
                 currentTranscriptIndex, lastAlignCall, scriptVars, syncVars, laterVars>>

\* The loop is over: return results.
AlignReturn ==
  /\ alignPc = "loop"
  /\ segmentIndex = Len(segments)
  /\ alignPc' = "done"
  /\ UNCHANGED <<transcriptText, transcriptWords, segments, transcriptTokens,
                 currentTranscriptIndex, results, segmentIndex, matchedTargets,
                 faults, lastAlignCall, scriptVars, syncVars, laterVars>>

AlignNext == AlignStart \/ AlignSegment \/ AlignSegmentRaises \/ AlignReturn

SpecAlign == AlignInit /\ [][AlignNext]_vars

(***************************************************************************)
(* Direct calls of SyncService.synchronizeVoiceOverWithPoints              *)
(* (SyncController.synchronizeVoiceOver, processCompletedVoiceOver).       *)
(***************************************************************************)
SyncVocab == { <<"G", "o", ".">>, <<"O", "n", ".">> }

\* Point texts a caller may send: sentences of the audio, a piece of a word,
\* several sentences, a text that was not spoken.
SyncPointTexts ==
  { <<"G", "o", ".">>, <<"O", "n", ".">>, <<"n", ".">>,
    <<"G", "o", ".", " ", "O", "n", ".">>, <<"U", "p", ".">> }

\* A voice-over store with one record of each kind.
SyncStore ==
  << [status |-> "pending", audioUrl |-> FALSE],
     [status |-> "completed", audioUrl |-> TRUE],
     [status |-> "failed", audioUrl |-> FALSE],
     [status |-> "completed", audioUrl |-> FALSE] >>

PreviousEndTimes == {Undefined} \cup 0..MaxOffset

getVoiceOver(id) == IF id \in DOMAIN voiceOvers THEN voiceOvers[id] ELSE NoVoiceOver

\* videoService.findVideoForPoint: the video the search finds for the point,
\* or null.  videos is the set of queries the search has a video for.
NoVideo == [found |-> FALSE]

findVideoForPoint(point, videos) ==
  IF point \in videos
  THEN [found |-> TRUE, id |-> <<"v">> \o point, url |-> <<"u">> \o point,
        image |-> <<"i">> \o point]
  ELSE NoVideo

\* The PointWithVideo pushed for a point: video?.id || '' and so on.
pointResult(safePoint, video) ==
  [text |-> safePoint,
   videoId |-> IF video.found THEN video.id ELSE <<>>,
   videoUrl |-> IF video.found THEN video.url ELSE <<>>,
   videoThumbnail |-> IF video.found THEN video.image ELSE <<>>,
   startTime |-> Undefined, endTime |-> Undefined]

\* The inner loop of findVideosForSections: the points that found a video
\* only.
pointResultsFoundOnly(pointTexts, videos) ==
  SelectSeq([k \in 1..Len(pointTexts) |->
               pointResult(pointTexts[k], findVideoForPoint(pointTexts[k], videos))],
            LAMBDA r : r.videoId # <<>>)

\* The inner loop of findVideosForSections: one result per point, in order.
pointResults(pointTexts, videos) ==
  [k \in 1..Len(pointTexts) |->
     pointResult(pointTexts[k], findVideoForPoint(pointTexts[k], videos))]

\* A ProcessedSection as findVideosForSections builds it.
newSection(id, pointTexts, videos) ==
  [sectionId |-> id,
   points |-> pointResults(pointTexts, videos),
   sectionOffset |-> Undefined, sectionEndTime |-> Undefined,
   voiceOverId |-> 0, audioUrl |-> FALSE]

\* The calls of findVideoForPoint made for the points, in order, each with
\* what it returned.
searchCalls(pointTexts, videos) ==
  [k \in 1..Len(pointTexts) |->
     [query |-> pointTexts[k], video |-> findVideoForPoint(pointTexts[k], videos)]]

withoutWords(tr) == [tr EXCEPT !.words = <<>>]

given(tr) == [given |-> TRUE, text |-> tr.text, words |-> tr.words]

NotTranscribed == [threw |-> TRUE, text |-> <<>>, words |-> <<>>]

transcribeOutcomes(tr) ==
  { [threw |-> TRUE, text |-> <<>>, words |-> <<>>],
    [threw |-> FALSE, text |-> tr.text, words |-> tr.words],
    [threw |-> FALSE, text |-> tr.text, words |-> <<>>] }

\* Whether a non-empty word-level transcription is available to a call:
\* supplied with it, or obtained from the completed voice-over's audio.
wordsAvailable(voiceOver, existingTranscript, transcribed) ==
  \/ existingTranscript.given /\ Len(existingTranscript.words) > 0
  \/ /\ voiceOver.status = "completed"
     /\ voiceOver.audioUrl
     /\ ~transcribed.threw
     /\ Len(transcribed.words) > 0

SyncInit ==
  /\ AlignIdle
  /\ LaterIdle
  /\ pc = "idle"
  /\ script = <<>>
  /\ request = [generateVoiceOver |-> FALSE, syncAudio |-> FALSE]
  /\ voiceOvers = SyncStore
  /\ webhooks = {}
  /\ sectionIndex = 0
  /\ sectionsWithVoiceOvers = <<>>
  /\ stepIndex = 0
  /\ audio \in Transcripts(SyncVocab)
  /\ transcript = NoTranscript
  /\ processedSections = <<>>
  /\ previousSectionEndTime = 0
  /\ result = <<>>
  /\ failedSections = {}
  /\ videoSearches = <<>>
  /\ \E pointTexts \in SeqsUpTo(SyncPointTexts, MaxPoints) :
       processedSection = newSection(1, pointTexts, Range(pointTexts))
  /\ syncOutcome = "none"
  /\ originalTimings = <<>>
  /\ syncHadWords = FALSE
  /\ syncCalls = 0

\* The effect of one call on the sync variables.
syncCallEffect(voiceOver, previousEnd, existingTranscript, transcribed) ==
  \E out \in {synchronizeVoiceOverWithPoints(voiceOver, processedSection, previousEnd,
                                             existingTranscript, transcribed)} :
    /\ processedSection' = out.section
    /\ syncOutcome' = out.outcome
    /\ originalTimings' = out.timings
    /\ syncHadWords' = wordsAvailable(voiceOver, existingTranscript, transcribed)
    /\ syncCalls' = syncCalls + 1

\* A call that passes a transcript with word-level data.
SyncWithTranscript ==
  /\ syncCalls < MaxSyncCalls
  /\ Len(audio.words) > 0
  /\ \E previousEnd \in PreviousEndTimes :
       syncCallEffect(getVoiceOver(processedSection.sectionId), previousEnd,
                      given(audio), NotTranscribed)
  /\ UNCHANGED <<alignVars, laterVars, scriptVars>>

\* A call without a transcript, or with one that has no words: the voice-over
\* is looked up and its audio transcribed.
SyncWithLookup ==
  /\ syncCalls < MaxSyncCalls
  /\ \E previousEnd \in PreviousEndTimes, voiceOverId \in 0..Len(voiceOvers),
        existingTranscript \in {NoTranscript, given(withoutWords(audio))},
        transcribed \in transcribeOutcomes(audio) :
       syncCallEffect(getVoiceOver(voiceOverId), previousEnd, existingTranscript,
                      transcribed)
  /\ UNCHANGED <<alignVars, laterVars, scriptVars>>

SyncNext == SyncWithTranscript \/ SyncWithLookup

SpecSync == SyncInit /\ [][SyncNext]_vars

(***************************************************************************)
(* JobService: what its methods compute.  Time passes only between the     *)
(* other calls and a cleanupOldJobs call.                                  *)
(***************************************************************************)
JobStatus == {"pending", "processing", "completed", "failed"}

\* The message and progress a caller of updateJobStatus passes; "none" and
\* Undefined stand for an argument left out.
JobDetails ==
  { [message |-> "none", progress |-> Undefined],
    [message |-> "Script processing started", progress |-> 10] }

ErrorMessage == "Unknown error"

\* The JobUpdate sendJobUpdate builds for a job.
jobUpdate(jobId, job) ==
  [jobId |-> jobId, status |-> job.status, progress |-> job.progress,
   message |-> job.message,
   result |-> IF job.status = "completed" THEN job.result ELSE 0]

\* Variant of sendJobUpdate that always includes the stored result.
sendJobUpdateWithStoredResult(log, ws, jobId, job) ==
  [log EXCEPT ![ws] = Append(@, [jobUpdate(jobId, job) EXCEPT !.result = job.result])]

\* sendJobUpdate: the update is passed to ws.send.
sendJobUpdate(log, ws, jobId, job) ==
  [log EXCEPT ![ws] = Append(@, jobUpdate(jobId, job))]

\* Variant of notifyJobUpdate that sends to one subscriber only.
notifyOneSubscriber(log, subs, jobId, job) ==
  IF subs[jobId] = {} THEN log
  ELSE sendJobUpdate(log, SetMin(subs[jobId]), jobId, job)

\* notifyJobUpdate: one sendJobUpdate for every subscriber of the job.
notifyJobUpdate(log, subs, jobId, job) ==
  [ws \in Sockets |->
     IF ws \in subs[jobId] THEN sendJobUpdate(log, ws, jobId, job)[ws] ELSE log[ws]]

\* The response of GET /jobs/:jobId.
getJobResponse(jobId, job) ==
  IF ~job.exists THEN [NoResponse EXCEPT !.jobId = jobId]
  ELSE [success |-> TRUE, jobId |-> jobId, status |-> job.status,
        progress |-> job.progress, message |-> job.message,
        result |-> IF job.status = "completed" THEN job.result ELSE 0]

\* Variant of unsubscribeFromJob that leaves the entry of the job in place.
keysAfterUnsubscribeKeepingEntry(keys, subs, jobId, ws) == keys

\* unsubscribeFromJob: the entries of JobService.subscribers afterwards; the
\* entry of the job is deleted when its set became empty.
keysAfterUnsubscribe(keys, subs, jobId, ws) ==
  IF jobId \in keys /\ subs[jobId] \ {ws} = {} THEN keys \ {jobId} ELSE keys

\* unsubscribeFromAllJobs: an entry that held ws is deleted when its set
\* became empty.
keysAfterUnsubscribeFromAll(keys, subs, ws) ==
  {id \in keys : ~(ws \in subs[id] /\ subs[id] \ {ws} = {})}

\* Variant of cleanupOldJobs that does not look at the status.
cleanupOldJobsOfAnyStatus(jobTable, now, maxAgeMs) ==
  [id \in JobIds |->
     IF /\ jobTable[id].exists
        /\ jobTable[id].completedAt # Undefined
        /\ now - jobTable[id].completedAt > maxAgeMs
     THEN NoJob ELSE jobTable[id]]

\* cleanupOldJobs(maxAgeMs), called at time now: the job table it leaves.
cleanupOldJobs(jobTable, now, maxAgeMs) ==
  [id \in JobIds |->
     IF /\ jobTable[id].exists
        /\ jobTable[id].status \in {"completed", "failed"}
        /\ jobTable[id].completedAt # Undefined
        /\ now - jobTable[id].completedAt > maxAgeMs
     THEN NoJob ELSE jobTable[id]]

\* The job createScriptProcessingJob stores.
pendingJob == [NoJob EXCEPT !.exists = TRUE, !.status = "pending"]

\* The job after updateJobStatus(jobId, status, message, progress) at time now.
updatedJob(job, status, detail, now) ==
  [job EXCEPT
     !.status = status,
     !.message = IF detail.message # "none" THEN detail.message ELSE @,
     !.progress = IF detail.progress # Undefined THEN detail.progress ELSE @,
     !.completedAt = IF status \in {"completed", "failed"} THEN now ELSE @]

\* The job after completeScriptProcessingJob(jobId, result) at time now.
completedJob(job, response, now) ==
  [job EXCEPT !.status = "completed", !.result = response, !.completedAt = now,
              !.progress = 100]

\* Variant of failJob that leaves completedAt alone.
failedJobWithoutCompletedAt(job, now) ==
  [job EXCEPT !.status = "failed", !.message = ErrorMessage]

\* The job after failJob(jobId, errorMessage) at time now.
failedJob(job, now) ==
  [job EXCEPT !.status = "failed", !.message = ErrorMessage, !.completedAt = now]

\* What every change of an existing job does: store it, notify, record it.
storeAndNotify(jobId, job) ==
  /\ jobs' = [jobs EXCEPT ![jobId] = job]
  /\ sent' = notifyJobUpdate(sent, subscribers, jobId, job)
  /\ jobChanges' = [jobChanges EXCEPT ![jobId] = Append(@, job)]
  /\ lastGet' = IF lastGet.jobId = jobId THEN NoResponse ELSE lastGet

(***************************************************************************)
(* ScriptService.processScript                                             *)
(***************************************************************************)
\* The pieces request.script splits into at blank lines.
ScriptParagraphs == { <<"G", "o", ".", " ", "O", "n", ".">>, <<" ">> }

\* What the generated audio of a section may contain.
SpokenAudios == Transcripts(SyncVocab)

\* The sections of the script: the trimmed non-empty pieces, numbered from 1.
parseScriptIntoSections(pieces) ==
  LET sectionTexts == SelectSeq([k \in 1..Len(pieces) |-> trim(pieces[k])], NonEmpty)
  IN [k \in 1..Len(sectionTexts) |-> [id |-> k, text |-> sectionTexts[k]]]

\* extractPointsFromSections: every section with the points of its text.
extractPointsFromSections(sections) ==
  [k \in 1..Len(sections) |->
     [id |-> sections[k].id, text |-> sections[k].text,
      points |-> splitSection(sections[k].text)]]

\* findVideosForSections: one ProcessedSection per section, in order.
findVideosForSections(sections, videos) ==
  [k \in 1..Len(sections) |-> newSection(sections[k].id, sections[k].points, videos)]

\* The calls of findVideoForPoint that findVideosForSections makes.
RECURSIVE sectionSearchCalls(_, _, _)
sectionSearchCalls(sections, videos, k) ==
  IF k > Len(sections) THEN <<>>
  ELSE searchCalls(sections[k].points, videos)
       \o sectionSearchCalls(sections, videos, k + 1)

\* The queries the video search may have a video for.
VideoQueries == { <<"G", "o", ".">>, <<"O", "n", ".">> }

processScriptDirectly(pieces, videos) ==
  LET sections == parseScriptIntoSections(pieces)
      sectionsWithPoints == extractPointsFromSections(sections)
  IN findVideosForSections(sectionsWithPoints, videos)

\* The searches processScriptDirectly makes.
directSearchCalls(pieces, videos) ==
  sectionSearchCalls(extractPointsFromSections(parseScriptIntoSections(pieces)),
                     videos, 1)

\* Variant of nextSectionStart that adds the end buffer once more.
nextSectionStartWithGap(returned, previous) ==
  IF Len(returned) > 0
  THEN orZero(returned[Len(returned)].endTime) + SECTION_END_BUFFER
  ELSE previous

\* previousSectionEndTime after a section has been synchronized.
nextSectionStart(returned, previous) ==
  IF Len(returned) > 0 THEN orZero(returned[Len(returned)].endTime) ELSE previous

ScriptInit ==
  /\ AlignIdle
  /\ LaterIdle
  /\ SyncIdle
  /\ pc = "request"
  /\ script \in SeqsUpTo(ScriptParagraphs, MaxSections)
  /\ request \in [generateVoiceOver : BOOLEAN, syncAudio : BOOLEAN]
  /\ voiceOvers = <<>>
  /\ webhooks = {}
  /\ sectionIndex = 0
  /\ sectionsWithVoiceOvers = <<>>
  /\ stepIndex = 0
  /\ audio = NoTranscript
  /\ transcript = NoTranscript
  /\ processedSections = <<>>
  /\ previousSectionEndTime = 0
  /\ result = <<>>
  /\ failedSections = {}
  /\ videoSearches = <<>>

\* The identifier createScriptProcessingJob draws for the job of the request.
JobOfRequest == 1

\* What updateJobStatus is passed when the background processing starts.
ProcessingStarted == [message |-> "Script processing started", progress |-> 10]

\* ScriptController.processScript: the job is created, and
\* processScriptInBackground runs up to its first await: the job is put to
\* processing and scriptService.processScript is started.
ProcessScriptRequest ==
  /\ pc = "request"
  /\ ~jobs[JobOfRequest].exists
  /\ LET started == updatedJob(pendingJob, "processing", ProcessingStarted, clock)
     IN /\ jobs' = [jobs EXCEPT ![JobOfRequest] = started]
        /\ sent' = notifyJobUpdate(sent, subscribers, JobOfRequest, started)
        /\ jobChanges' = [jobChanges EXCEPT ![JobOfRequest] = <<pendingJob, started>>]
  /\ jobCalls' = jobCalls + 2
  /\ pc' = "start"
  /\ UNCHANGED <<alignVars, syncVars, segmenterVars, reconcileVars, normalizerVars,
                 script, request, voiceOvers, webhooks, sectionIndex,
                 sectionsWithVoiceOvers, stepIndex, audio, transcript,
                 processedSections, previousSectionEndTime, result, failedSections,
                 videoSearches, subscribers, subscriberKeys, sockets, lastGet,
                 subscription, completedWith, clock, cleanupCall>>

\* processScriptInBackground after scriptService.processScript resolved: the
\* response is built and the job completed with it.
CompleteBackground ==
  /\ pc = "done"
  /\ \E response \in 1..MaxResults :
       /\ storeAndNotify(JobOfRequest, completedJob(jobs[JobOfRequest], response, clock))
       /\ completedWith' = [completedWith EXCEPT ![JobOfRequest] = response]
  /\ jobCalls' = jobCalls + 1
  /\ pc' = "finished"
  /\ UNCHANGED <<alignVars, syncVars, segmenterVars, reconcileVars, normalizerVars,
                 script, request, voiceOvers, webhooks, sectionIndex,
                 sectionsWithVoiceOvers, stepIndex, audio, transcript,
                 processedSections, previousSectionEndTime, result, failedSections,
                 videoSearches, subscribers, subscriberKeys, sockets,
                 subscription, clock, cleanupCall>>

\* The catch of processScriptInBackground: scriptService.processScript
\* rejected, or building the response raised; the job is failed.
FailBackground ==
  /\ pc \in {"start", "done"}
  /\ storeAndNotify(JobOfRequest, failedJob(jobs[JobOfRequest], clock))
  /\ jobCalls' = jobCalls + 1
  /\ pc' = "finished"
  /\ UNCHANGED <<alignVars, syncVars, segmenterVars, reconcileVars, normalizerVars,
                 script, request, voiceOvers, webhooks, sectionIndex,
                 sectionsWithVoiceOvers, stepIndex, audio, transcript,
                 processedSections, previousSectionEndTime, result, failedSections,
                 videoSearches, subscribers, subscriberKeys, sockets,
                 subscription, completedWith, clock, cleanupCall>>

\* generateVoiceOver is off: the direct flow.
ProcessDirectly ==
  /\ pc = "start"
  /\ ~request.generateVoiceOver
  /\ \E videos \in SUBSET VideoQueries :
       /\ result' = processScriptDirectly(script, videos)
       /\ videoSearches' = videoSearches \o directSearchCalls(script, videos)
  /\ pc' = "done"
  /\ UNCHANGED <<alignVars, laterVars, syncVars, script, request, voiceOvers, webhooks, sectionIndex,
                 sectionsWithVoiceOvers, stepIndex, audio, transcript,
                 processedSections, previousSectionEndTime, failedSections>>

\* generateVoiceOver is on: enter the voice-over loop.
StartVoiceOvers ==
  /\ pc = "start"
  /\ request.generateVoiceOver
  /\ pc' = "generate"
  /\ UNCHANGED <<alignVars, laterVars, syncVars, script, request, voiceOvers, webhooks, sectionIndex,
                 sectionsWithVoiceOvers, stepIndex, audio, transcript,
                 processedSections, previousSectionEndTime, result, failedSections,
                 videoSearches>>

\* voiceService.generateVoiceOver for section i, up to the answer of the TTS
\* request: it is refused (the loop goes on with the next section) or
\* accepted under the next uuid, and then the TTS service owes a webhook.
GenerateVoiceOver ==
  /\ pc = "generate"
  /\ sectionIndex < Len(parseScriptIntoSections(script))
  /\ \E accepted \in BOOLEAN :
       IF accepted
       THEN /\ webhooks' = webhooks \cup {Len(voiceOvers) + 1}
            /\ pc' = "store"
            /\ UNCHANGED sectionIndex
       ELSE /\ sectionIndex' = sectionIndex + 1
            /\ UNCHANGED <<webhooks, pc>>
  /\ UNCHANGED <<alignVars, laterVars, syncVars, script, request, voiceOvers,
                 sectionsWithVoiceOvers,
                 stepIndex, audio, transcript, processedSections,
                 previousSectionEndTime, result, failedSections, videoSearches>>

\* generateVoiceOver after the await: the pending record is stored under the
\* uuid of the answer.
StoreVoiceOver ==
  /\ pc = "store"
  /\ voiceOvers' = Append(voiceOvers, PendingVoiceOver)
  /\ pc' = "wait"
  /\ UNCHANGED <<alignVars, laterVars, syncVars, script, request, webhooks, sectionIndex,
                 sectionsWithVoiceOvers, stepIndex, audio, transcript,
                 processedSections, previousSectionEndTime, result, failedSections,
                 videoSearches>>

\* VoiceController.handleWebhook with a valid signature: the TTS service
\* reports each accepted generation once.
HandleWebhook ==
  /\ \E uuid \in webhooks, payload \in WebhookPayloads :
       /\ voiceOvers' = updateVoiceOverStatus(voiceOvers, uuid,
                                              processWebhookPayload(payload))
       /\ webhooks' = webhooks \ {uuid}
  /\ UNCHANGED <<alignVars, laterVars, syncVars, pc, script, request, sectionIndex,
                 sectionsWithVoiceOvers, stepIndex, audio, transcript,
                 processedSections, previousSectionEndTime, result, failedSections,
                 videoSearches>>

\* Variant of the push that puts the pair in front.
unshiftPair(pairs, section, voiceOverId) ==
  <<[section |-> section, voiceOver |-> voiceOverId]>> \o pairs

\* sectionsWithVoiceOvers.push({section, voiceOver})
pushPair(pairs, section, voiceOverId) ==
  Append(pairs, [section |-> section, voiceOver |-> voiceOverId])

\* waitForVoiceOverCompletion returns: the voice-over is gone or failed (the
\* section is skipped) or completed with an audio URL (the pair is kept).
\* A poll that finds it pending waits and changes nothing.
WaitForVoiceOverCompletion ==
  /\ pc = "wait"
  /\ LET voiceOverId == Len(voiceOvers)
         polled == pollResult(getVoiceOver(voiceOverId))
     IN /\ polled # "again"
        /\ sectionsWithVoiceOvers' =
             IF polled = "voiceOver"
             THEN pushPair(sectionsWithVoiceOvers, sectionIndex + 1, voiceOverId)
             ELSE sectionsWithVoiceOvers
  /\ sectionIndex' = sectionIndex + 1
  /\ pc' = "generate"
  /\ UNCHANGED <<alignVars, laterVars, syncVars, script, request, voiceOvers, webhooks,
                 stepIndex, audio,
                 transcript, processedSections, previousSectionEndTime, result,
                 failedSections, videoSearches>>

\* After the voice-over loop: fall back to the direct flow if no voice-over
\* was generated, else start the processing loop.
BeginProcessing ==
  /\ pc = "generate"
  /\ sectionIndex >= Len(parseScriptIntoSections(script))
  /\ IF Len(sectionsWithVoiceOvers) = 0
     THEN /\ \E videos \in SUBSET VideoQueries :
               /\ result' = processScriptDirectly(script, videos)
               /\ videoSearches' = videoSearches \o directSearchCalls(script, videos)
          /\ pc' = "done"
          /\ UNCHANGED stepIndex
     ELSE /\ pc' = "process"
          /\ stepIndex' = 1
          /\ UNCHANGED <<result, videoSearches>>
  /\ UNCHANGED <<alignVars, laterVars, syncVars, script, request, voiceOvers, webhooks, sectionIndex,
                 sectionsWithVoiceOvers, audio, transcript, processedSections,
                 previousSectionEndTime, failedSections>>

\* Steps 3.1 to 3.3 for the pair at stepIndex: transcribe the audio, extract
\* the points from the transcript text, find the videos.  Without syncAudio
\* the section is completed and pushed here.
TranscribeSection ==
  /\ pc = "process"
  /\ stepIndex <= Len(sectionsWithVoiceOvers)
  /\ \E spoken \in SpokenAudios, found \in BOOLEAN :
     \E heard \in transcribeOutcomes(spoken) :
       LET pair == sectionsWithVoiceOvers[stepIndex]
           points == splitSection(heard.text)
           videos == IF found THEN Range(points) ELSE {}
           built == newSection(pair.section, points, videos)
           complete == [built EXCEPT !.voiceOverId = pair.voiceOver,
                                     !.audioUrl = voiceOvers[pair.voiceOver].audioUrl]
       IN IF heard.threw \/ Len(heard.text) = 0
          THEN /\ failedSections' = failedSections \cup {pair.section}
               /\ stepIndex' = stepIndex + 1
               /\ UNCHANGED <<pc, audio, transcript, processedSections, syncVars,
                              videoSearches>>
          ELSE /\ audio' = spoken
               /\ videoSearches' = videoSearches \o searchCalls(points, videos)
               /\ transcript' = [given |-> TRUE, text |-> heard.text, words |-> heard.words]
               /\ originalTimings' = <<>>
               /\ syncOutcome' = "none"
               /\ syncHadWords' = FALSE
               /\ syncCalls' = 0
               /\ UNCHANGED failedSections
               /\ IF request.syncAudio
                  THEN /\ processedSection' = built
                       /\ pc' = "sync"
                       /\ UNCHANGED <<processedSections, stepIndex>>
                  ELSE /\ processedSection' = complete
                       /\ processedSections' = Append(processedSections, complete)
                       /\ stepIndex' = stepIndex + 1
                       /\ UNCHANGED pc
  /\ UNCHANGED <<alignVars, laterVars, script, request, voiceOvers, webhooks, sectionIndex,
                 sectionsWithVoiceOvers, previousSectionEndTime, result>>

\* Step 3.4 and the rest of the iteration: synchronizeVoiceOverWithPoints
\* with the transcript at hand; the returned points replace the section's
\* points, previousSectionEndTime moves on, the section is pushed.  An error
\* raised by the call ends the iteration in the catch.
SynchronizeSection ==
  /\ pc = "sync"
  /\ LET pair == sectionsWithVoiceOvers[stepIndex]
         heardAgain == IF Len(transcript.words) > 0 THEN {NotTranscribed}
                       ELSE transcribeOutcomes(audio)
     IN \E transcribed \in heardAgain :
        \E out \in {synchronizeVoiceOverWithPoints(getVoiceOver(pair.voiceOver),
                      processedSection, previousSectionEndTime, transcript, transcribed)} :
          LET complete == [out.section EXCEPT !.points = out.returned,
                                             !.voiceOverId = pair.voiceOver,
                                             !.audioUrl = voiceOvers[pair.voiceOver].audioUrl]
          IN /\ syncOutcome' = out.outcome
             /\ originalTimings' = out.timings
             /\ syncHadWords' = wordsAvailable(getVoiceOver(pair.voiceOver), transcript,
                                               transcribed)
             /\ syncCalls' = syncCalls + 1
             /\ IF out.threw
                THEN /\ processedSection' = out.section
                     /\ failedSections' = failedSections \cup {pair.section}
                     /\ UNCHANGED <<processedSections, previousSectionEndTime>>
                ELSE /\ processedSection' = complete
                     /\ processedSections' = Append(processedSections, complete)
                     /\ previousSectionEndTime' =
                          nextSectionStart(out.returned, previousSectionEndTime)
                     /\ UNCHANGED failedSections
  /\ stepIndex' = stepIndex + 1
  /\ pc' = "process"
  /\ UNCHANGED <<alignVars, laterVars, script, request, voiceOvers, webhooks, sectionIndex,
                 sectionsWithVoiceOvers, audio, transcript, result, videoSearches>>

\* After the processing loop: the processed sections, or the direct flow if
\* there are none.
FinishScript ==
  /\ pc = "process"
  /\ stepIndex > Len(sectionsWithVoiceOvers)
  /\ IF Len(processedSections) = 0
     THEN \E videos \in SUBSET VideoQueries :
            /\ result' = processScriptDirectly(script, videos)
            /\ videoSearches' = videoSearches \o directSearchCalls(script, videos)
     ELSE /\ result' = processedSections
          /\ UNCHANGED videoSearches
  /\ pc' = "done"
  /\ UNCHANGED <<alignVars, laterVars, syncVars, script, request, voiceOvers, webhooks, sectionIndex,
                 sectionsWithVoiceOvers, stepIndex, audio, transcript,
                 processedSections, previousSectionEndTime, failedSections>>

ScriptNext ==
  \/ ProcessScriptRequest
  \/ CompleteBackground
  \/ FailBackground
  \/ ProcessDirectly
  \/ StartVoiceOvers
  \/ GenerateVoiceOver
  \/ StoreVoiceOver
  \/ HandleWebhook
  \/ WaitForVoiceOverCompletion
  \/ BeginProcessing
  \/ TranscribeSection
  \/ SynchronizeSection
  \/ FinishScript

SpecScript == ScriptInit /\ [][ScriptNext]_vars

\* The polling loop keeps running: a poll that can return is made.
SpecScriptPolling == SpecScript /\ WF_vars(WaitForVoiceOverCompletion)

\* The positions of the background processing at which it is not waiting
\* for anything but the return of a call it made.
RunningPositions == {"start", "generate", "process", "sync", "done"}

\* Every call the job awaits returns and the job takes its next step: the
\* request is handled, the record is stored when the TTS request has
\* returned, the polling loop keeps running, and the job does not stay for
\* ever at a position where it only has to go on.  The TTS service sends
\* each webhook it owes.
SpecScriptFair ==
  /\ SpecScript
  /\ WF_vars(ProcessScriptRequest)
  /\ WF_vars(StoreVoiceOver)
  /\ WF_vars(WaitForVoiceOverCompletion)
  /\ WF_vars(HandleWebhook)
  /\ \A position \in RunningPositions : []<>(pc # position)

(***************************************************************************)
(* TranscriptSegmenter.segmentSectionTranscript and segmentTranscript      *)
(***************************************************************************)
GoodDay == <<"G", "o", "o", "d", " ", "d", "a", "y", ".">>
GoNow == <<"G", "o", " ", "n", "o", "w", ".">>
UpText == <<"U", "p", ".">>
DayGood == <<"d", "a", "y", " ", "g", "o", "o", "d">>

\* The point texts handed to segmentSectionTranscript.
SegmenterPointTexts == {GoodDay, GoNow, UpText, <<>>}

\* The paragraphs of the scripts handed to segmentTranscript.
SegmenterParagraphs == {GoodDay \o <<" ">> \o GoNow, UpText, GoNow}

\* The transcripts handed to either method.
SegmenterTranscripts == {<<>>, GoodDay \o <<" ">> \o GoNow, DayGood, GoNow}

\* Array.prototype.indexOf on an element the array holds, 0-based.
firstIndexOf(list, x) == SetMin({i \in 1..Len(list) : list[i] = x}) - 1

\* nextStartIndex !== -1 ? nextStartIndex : transcript.length
foundOr(index, otherwise) == IF index # -1 THEN index ELSE otherwise

\* pointEndIndex where the point found at pointStartIndex is followed by
\* nextPoint (the empty text when there is none).
pointEnd(nextPoint, originalPoint, wholeTranscript, pointStartIndex, roundsUp) ==
  IF nextPoint = <<>> THEN Len(wholeTranscript)
  ELSE foundOr(findBestMatch(nextPoint, wholeTranscript,
                             pointStartIndex + Len(originalPoint), roundsUp),
               Len(wholeTranscript))

\* The loop of segmentSectionTranscript over section.points from point k on:
\* the points pushed.
RECURSIVE sectionPointsFrom(_, _, _, _, _)
sectionPointsFrom(points, k, wholeTranscript, transcriptPosition, roundsUp) ==
  IF k > Len(points) THEN <<>>
  ELSE LET originalPoint == points[k]
           pointStartIndex == findBestMatch(originalPoint, wholeTranscript,
                                            transcriptPosition, roundsUp)
           pointIndex == firstIndexOf(points, originalPoint)
           nextPoint == IF pointIndex = Len(points) - 1 THEN <<>>
                        ELSE points[pointIndex + 2]
           pointEndIndex == pointEnd(nextPoint, originalPoint, wholeTranscript,
                                     pointStartIndex, roundsUp)
       IN IF originalPoint = <<>>
          THEN sectionPointsFrom(points, k + 1, wholeTranscript, transcriptPosition, roundsUp)
          ELSE IF pointStartIndex # -1
          THEN <<originalPoint>>
               \o sectionPointsFrom(points, k + 1, wholeTranscript, pointEndIndex, roundsUp)
          ELSE <<originalPoint>>
               \o sectionPointsFrom(points, k + 1, wholeTranscript, transcriptPosition, roundsUp)

segmentSectionTranscript(wholeTranscript, section, roundsUp) ==
  [id |-> section.id, text |-> section.text,
   points |-> sectionPointsFrom(section.points, 1, wholeTranscript, 0, roundsUp)]

\* The inner loop of segmentTranscript over the points of section s from
\* point k on: the points pushed and the transcript position reached.
RECURSIVE transcriptPointsFrom(_, _, _, _, _, _)
transcriptPointsFrom(sections, s, k, wholeTranscript, transcriptPosition, roundsUp) ==
  LET points == sections[s].points
  IN IF k > Len(points) THEN [points |-> <<>>, position |-> transcriptPosition]
     ELSE LET originalPoint == points[k]
              pointStartIndex == findBestMatch(originalPoint, wholeTranscript,
                                               transcriptPosition, roundsUp)
              pointIndex == firstIndexOf(points, originalPoint)
              nextPoint ==
                IF pointIndex = Len(points) - 1
                THEN (IF s < Len(sections) /\ Len(sections[s + 1].points) > 0
                      THEN sections[s + 1].points[1] ELSE <<>>)
                ELSE points[pointIndex + 2]
              pointEndIndex == pointEnd(nextPoint, originalPoint, wholeTranscript,
                                        pointStartIndex, roundsUp)
              skipped == transcriptPointsFrom(sections, s, k + 1, wholeTranscript,
                                              transcriptPosition, roundsUp)
              rest == transcriptPointsFrom(sections, s, k + 1, wholeTranscript,
                                           pointEndIndex, roundsUp)
          IN IF originalPoint = <<>> \/ pointStartIndex = -1 THEN skipped
             ELSE [points |-> <<originalPoint>> \o rest.points,
                   position |-> rest.position]

\* The outer loop of segmentTranscript from section s on.
RECURSIVE transcriptSectionsFrom(_, _, _, _, _)
transcriptSectionsFrom(sections, s, wholeTranscript, transcriptPosition, roundsUp) ==
  IF s > Len(sections) THEN <<>>
  ELSE LET inner == transcriptPointsFrom(sections, s, 1, wholeTranscript,
                                         transcriptPosition, roundsUp)
           transcriptSection == [id |-> sections[s].id, text |-> sections[s].text,
                                 points |-> inner.points]
           rest == transcriptSectionsFrom(sections, s + 1, wholeTranscript,
                                          inner.position, roundsUp)
       IN IF Len(inner.points) > 0 THEN <<transcriptSection>> \o rest ELSE rest

segmentTranscript(wholeTranscript, pieces, roundsUp) ==
  LET originalSections == parseScriptIntoSections(pieces)
      originalSectionsWithPoints == extractPointsFromSections(originalSections)
  IN transcriptSectionsFrom(originalSectionsWithPoints, 1, wholeTranscript, 0, roundsUp)

SegmenterInit ==
  /\ segmenterCall = "none"
  /\ segmenterTranscript \in SegmenterTranscripts
  /\ segmenterScript = <<>>
  /\ segmenterSection = NoInputSection
  /\ segmenterOutput = <<>>
  /\ segmenterMatch = NoMatchCall
  /\ AlignIdle
  /\ ScriptIdle
  /\ SyncIdle
  /\ ReconcileIdle
  /\ NormalizerIdle
  /\ JobsEmpty

\* A call of segmentSectionTranscript on a section of the chosen points.
SegmentSectionTranscript ==
  /\ segmenterCall = "none"
  /\ \E points \in SeqsUpTo(SegmenterPointTexts, MaxSegmenterPoints), roundsUp \in BOOLEAN :
       LET section == [id |-> 1, text |-> joinWith(points, <<" ">>), points |-> points]
       IN /\ segmenterSection' = section
          /\ segmenterOutput' =
               <<segmentSectionTranscript(segmenterTranscript, section, roundsUp)>>
  /\ segmenterCall' = "segmentSectionTranscript"
  /\ UNCHANGED <<alignVars, scriptVars, syncVars, reconcileVars, normalizerVars, jobVars,
                 segmenterTranscript, segmenterScript, segmenterMatch>>

\* A call of segmentTranscript on a script of the chosen paragraphs.
SegmentTranscript ==
  /\ segmenterCall = "none"
  /\ \E pieces \in SeqsUpTo(SegmenterParagraphs, MaxSections), roundsUp \in BOOLEAN :
       /\ segmenterScript' = pieces
       /\ segmenterOutput' = segmentTranscript(segmenterTranscript, pieces, roundsUp)
  /\ segmenterCall' = "segmentTranscript"
  /\ UNCHANGED <<alignVars, scriptVars, syncVars, reconcileVars, normalizerVars, jobVars,
                 segmenterTranscript, segmenterSection, segmenterMatch>>

SegmenterNext ==
  \/ SegmentSectionTranscript
  \/ SegmentTranscript

SpecSegmenter == SegmenterInit /\ [][SegmenterNext]_vars

(***************************************************************************)
(* TranscriptSegmenter.findBestMatch                                       *)
(***************************************************************************)
GoNowUp == <<"G", "o", " ", "n", "o", "w", " ", "u", "p", ".">>
FiveWords == <<"a", "a", "a", " ", "b", "b", "b", " ", "c", "c", "c", " ", "d", "d", "d", " ", "e", "e", "e">>
FiveWordsLong == <<"a", "a", "a", " ", "b", "b", "b", " ", "c", "c", "c", " ", "d", "d", "d", " ", "e", "e", "e", "e">>
Scattered == <<"a", "a", "a", " ", "z", "z", "z", " ", "z", "z", "z", " ", "z", "z", "z", " ", "z", "z", "z", " ", "z", "z", "z", " ", "a", "a", "a", " ", "b", "b", "b", " ", "c", "c", "c", " ", "d", "d", "d", " ", "x", "x", "x">>
Repeated == <<"a", "a", "a", " ", "d", "d", "d", " ", "e", "e", "e", " ", "a", "a", "a", " ", "b", "b", "b", " ", "c", "c", "c", " ", "a", "a", "a">>
Swapped == <<"b", "b", "b", " ", "a", "a", "a", " ", "c", "c", "c", " ", "d", "d", "d", " ", "e", "e", "e", "e", " ", "e", "e", "e", "e">>

\* The points looked for.
MatchPoints == {GoodDay, GoNowUp, FiveWords, FiveWordsLong, UpText}

\* The transcripts they are looked for in.
MatchTranscripts ==
  {DayGood, GoodDay \o <<" ">> \o GoNow, Scattered, Swapped, Repeated}

MatchInit ==
  /\ segmenterCall = "none"
  /\ segmenterTranscript \in MatchTranscripts
  /\ segmenterScript = <<>>
  /\ segmenterSection = NoInputSection
  /\ segmenterOutput = <<>>
  /\ segmenterMatch = NoMatchCall
  /\ AlignIdle
  /\ ScriptIdle
  /\ SyncIdle
  /\ ReconcileIdle
  /\ NormalizerIdle
  /\ JobsEmpty

\* A call of findBestMatch(point, transcript, startPosition).
FindBestMatch ==
  /\ segmenterCall = "none"
  /\ \E point \in MatchPoints, startPosition \in 0..MaxStartPosition,
        roundsUp \in BOOLEAN :
       segmenterMatch' =
         [point |-> point, startPosition |-> startPosition, roundsUp |-> roundsUp,
          index |-> findBestMatch(point, segmenterTranscript, startPosition, roundsUp),
          branch |-> findBestMatchDetail(point, segmenterTranscript, startPosition,
                                         roundsUp).branch]
  /\ segmenterCall' = "findBestMatch"
  /\ UNCHANGED <<alignVars, scriptVars, syncVars, reconcileVars, normalizerVars, jobVars,
                 segmenterTranscript, segmenterScript, segmenterSection, segmenterOutput>>

MatchNext == FindBestMatch

SpecMatch == MatchInit /\ [][MatchNext]_vars

(***************************************************************************)
(* Two reconciliations of one section                                      *)
(***************************************************************************)
\* A completed voice-over with audio.
CompletedVoiceOver == [status |-> "completed", audioUrl |-> TRUE]

ReconcileInit ==
  /\ \E pointTexts \in SeqsUpTo(SyncPointTexts, MaxPoints) :
       reconcileSection = newSection(1, pointTexts, Range(pointTexts))
  /\ reconcileOffset = 0
  /\ reconcileRaw = <<>>
  /\ reconcileOut = <<>>
  /\ AlignIdle
  /\ ScriptIdle
  /\ SyncIdle
  /\ SegmenterIdle
  /\ NormalizerIdle
  /\ JobsEmpty

\* synchronizeVoiceOverWithPoints is called on the section twice, with the
\* same previousSectionEndTime and the transcripts of two audios.
ReconcileTwice ==
  /\ reconcileRaw = <<>>
  /\ \E previousEnd \in PreviousEndTimes, audioA, audioB \in Transcripts(SyncVocab) :
       /\ Len(audioA.words) > 0
       /\ Len(audioB.words) > 0
       /\ \E outA \in {synchronizeVoiceOverWithPoints(CompletedVoiceOver, reconcileSection,
                         previousEnd, given(audioA), NotTranscribed)},
             outB \in {synchronizeVoiceOverWithPoints(CompletedVoiceOver, reconcileSection,
                         previousEnd, given(audioB), NotTranscribed)} :
            /\ reconcileOffset' = orZero(previousEnd)
            /\ reconcileRaw' = <<outA.timings, outB.timings>>
            /\ reconcileOut' = <<outA.section, outB.section>>
  /\ UNCHANGED <<alignVars, scriptVars, syncVars, segmenterVars, normalizerVars, jobVars,
                 reconcileSection>>

ReconcileNext == ReconcileTwice

SpecReconcile == ReconcileInit /\ [][ReconcileNext]_vars

(***************************************************************************)
(* TextNormalizer.normalizeText and tokenize, called on their own          *)
(***************************************************************************)
\* The words of the texts without numbers: with punctuation, nothing but
\* punctuation, plain, empty.
NormalizerWords == {<<"C", "a", "t", ",">>, <<"!">>, <<"d", "o", "g">>, <<>>}

\* What stands between two words.
NormalizerSeparators == {<<" ">>, <<" ", " ">>, <<"\t">>}

TwoPointTwo == <<"T", "w", "o", " ", "p", "o", "i", "n", "t", " ", "t", "w", "o">>

\* Texts with spoken numbers.
NumberTexts ==
  { <<"T", "w", "o">>, TwoPointTwo, <<"C", "a", "t", ",", " ">> \o TwoPointTwo \o <<".">>,
    TwoPointTwo \o <<" ", "d", "o", "g">> }

NormalizerTexts ==
  NumberTexts
  \cup { joinWith(ws, sep) : ws \in SeqsUpTo(NormalizerWords, MaxNormalizerWords),
                             sep \in NormalizerSeparators }

NormalizerInit ==
  /\ normalizerCall = "none"
  /\ normalizerText \in NormalizerTexts
  /\ normalized = <<>>
  /\ normalizedAgain = <<>>
  /\ tokens = <<>>
  /\ AlignIdle
  /\ ScriptIdle
  /\ SyncIdle
  /\ SegmenterIdle
  /\ ReconcileIdle
  /\ JobsEmpty

\* normalizeText(text)
NormalizeText ==
  /\ normalizerCall = "none"
  /\ normalized' = normalizeText(normalizerText)
  /\ normalizerCall' = "normalizeText"
  /\ UNCHANGED <<alignVars, scriptVars, syncVars, segmenterVars, reconcileVars, jobVars,
                 normalizerText, normalizedAgain, tokens>>

\* normalizeText applied to what normalizeText returned.
NormalizeAgain ==
  /\ normalizerCall = "normalizeText"
  /\ normalizedAgain' = normalizeText(normalized)
  /\ normalizerCall' = "normalizeText twice"
  /\ UNCHANGED <<alignVars, scriptVars, syncVars, segmenterVars, reconcileVars, jobVars,
                 normalizerText, normalized, tokens>>

\* tokenize(text)
Tokenize ==
  /\ normalizerCall = "none"
  /\ tokens' = tokenize(normalizerText)
  /\ normalizerCall' = "tokenize"
  /\ UNCHANGED <<alignVars, scriptVars, syncVars, segmenterVars, reconcileVars, jobVars,
                 normalizerText, normalized, normalizedAgain>>

NormalizerNext ==
  \/ NormalizeText
  \/ NormalizeAgain
  \/ Tokenize

SpecNormalizer == NormalizerInit /\ [][NormalizerNext]_vars

(***************************************************************************)
(* JobService and the job routes: the requests.                            *)
(***************************************************************************)
JobInit ==
  /\ JobsEmpty
  /\ AlignIdle
  /\ ScriptIdle
  /\ SyncIdle
  /\ SegmenterIdle
  /\ ReconcileIdle
  /\ NormalizerIdle

\* createScriptProcessingJob: a pending job under a fresh identifier.
CreateScriptProcessingJob ==
  /\ jobCalls < MaxJobCalls
  /\ \E jobId \in 1..MaxJobs :
       /\ ~jobs[jobId].exists
       /\ jobChanges[jobId] = <<>>
       /\ \A other \in 1..(jobId - 1) : jobs[other].exists \/ jobChanges[other] # <<>>
       /\ jobs' = [jobs EXCEPT ![jobId] = pendingJob]
       /\ jobChanges' = [jobChanges EXCEPT ![jobId] = <<jobs'[jobId]>>]
  /\ jobCalls' = jobCalls + 1
  /\ UNCHANGED <<alignVars, scriptVars, syncVars, segmenterVars, reconcileVars,
                 normalizerVars, clock, cleanupCall,
                 subscribers, subscriberKeys, sockets, sent, lastGet, subscription,
                 completedWith>>

\* updateJobStatus(jobId, status, message, progress)
UpdateJobStatus ==
  /\ jobCalls < MaxJobCalls
  /\ \E jobId \in JobIds, status \in JobStatus, detail \in JobDetails :
       /\ IF ~jobs[jobId].exists
          THEN UNCHANGED <<jobs, sent, jobChanges, lastGet>>
          ELSE storeAndNotify(jobId, updatedJob(jobs[jobId], status, detail, clock))
  /\ jobCalls' = jobCalls + 1
  /\ UNCHANGED <<alignVars, scriptVars, syncVars, segmenterVars, reconcileVars,
                 normalizerVars, clock, cleanupCall,
                 subscribers, subscriberKeys, sockets, subscription, completedWith>>

\* completeScriptProcessingJob(jobId, result)
CompleteScriptProcessingJob ==
  /\ jobCalls < MaxJobCalls
  /\ \E jobId \in JobIds, response \in 1..MaxResults :
       /\ IF ~jobs[jobId].exists
          THEN UNCHANGED <<jobs, sent, jobChanges, lastGet, completedWith>>
          ELSE /\ storeAndNotify(jobId, completedJob(jobs[jobId], response, clock))
               /\ completedWith' = [completedWith EXCEPT ![jobId] = response]
  /\ jobCalls' = jobCalls + 1
  /\ UNCHANGED <<alignVars, scriptVars, syncVars, segmenterVars, reconcileVars,
                 normalizerVars, clock, cleanupCall,
                 subscribers, subscriberKeys, sockets, subscription>>

\* failJob(jobId, errorMessage)
FailJob ==
  /\ jobCalls < MaxJobCalls
  /\ \E jobId \in JobIds :
       /\ IF ~jobs[jobId].exists
          THEN UNCHANGED <<jobs, sent, jobChanges, lastGet>>
          ELSE storeAndNotify(jobId, failedJob(jobs[jobId], clock))
  /\ jobCalls' = jobCalls + 1
  /\ UNCHANGED <<alignVars, scriptVars, syncVars, segmenterVars, reconcileVars,
                 normalizerVars, clock, cleanupCall,
                 subscribers, subscriberKeys, sockets, subscription, completedWith>>

\* A WebSocket opens on /jobs/:jobId/updates: subscribeToJob(jobId, ws).  The
\* sockets are alike, so they are taken to open in the order of their numbers.
OpenSocket ==
  /\ \E ws \in Sockets, jobId \in JobIds :
       /\ sockets[ws].state = "new"
       /\ \A earlier \in 1..(ws - 1) : sockets[earlier].state # "new"
       /\ sockets' = [sockets EXCEPT ![ws] = [state |-> "open", jobId |-> jobId]]
       /\ subscribers' = [subscribers EXCEPT ![jobId] = @ \cup {ws}]
       /\ subscriberKeys' = subscriberKeys \cup {jobId}
       /\ sent' = IF jobs[jobId].exists
                  THEN sendJobUpdate(sent, ws, jobId, jobs[jobId])
                  ELSE sent
       /\ subscription' = [subscription EXCEPT ![ws] =
            [jobId |-> jobId, sentBefore |-> Len(sent[ws]),
             changesBefore |-> Len(jobChanges[jobId]), job |-> jobs[jobId]]]
  /\ UNCHANGED <<alignVars, scriptVars, syncVars, segmenterVars, reconcileVars,
                 normalizerVars, clock, cleanupCall,
                 jobs, lastGet, jobChanges, completedWith, jobCalls>>

\* The client sends the unsubscribe command: unsubscribeFromJob(jobId, ws).
UnsubscribeCommand ==
  /\ \E ws \in Sockets :
       /\ sockets[ws].state = "open"
       /\ ws \in subscribers[sockets[ws].jobId]
       /\ subscribers' = [subscribers EXCEPT ![sockets[ws].jobId] = @ \ {ws}]
       /\ subscriberKeys' = keysAfterUnsubscribe(subscriberKeys, subscribers,
                                                 sockets[ws].jobId, ws)
       /\ subscription' = [subscription EXCEPT ![ws] = NoSubscription]
  /\ UNCHANGED <<alignVars, scriptVars, syncVars, segmenterVars, reconcileVars,
                 normalizerVars, clock, cleanupCall,
                 jobs, sockets, sent, lastGet, jobChanges,
                 completedWith, jobCalls>>

\* The WebSocket closes: unsubscribeFromJob(jobId, ws).
CloseSocket ==
  /\ \E ws \in Sockets :
       /\ sockets[ws].state = "open"
       /\ sockets' = [sockets EXCEPT ![ws].state = "closed"]
       /\ subscribers' = [subscribers EXCEPT ![sockets[ws].jobId] = @ \ {ws}]
       /\ subscriberKeys' = keysAfterUnsubscribe(subscriberKeys, subscribers,
                                                 sockets[ws].jobId, ws)
       /\ subscription' = [subscription EXCEPT ![ws] = NoSubscription]
  /\ UNCHANGED <<alignVars, scriptVars, syncVars, segmenterVars, reconcileVars,
                 normalizerVars, clock, cleanupCall,
                 jobs, sent, lastGet, jobChanges, completedWith, jobCalls>>

\* unsubscribeFromAllJobs(ws), for a WebSocket that has been opened.
UnsubscribeFromAllJobs ==
  /\ \E ws \in Sockets :
       /\ sockets[ws].state # "new"
       /\ subscribers' = [id \in JobIds |-> subscribers[id] \ {ws}]
       /\ subscriberKeys' = keysAfterUnsubscribeFromAll(subscriberKeys, subscribers, ws)
       /\ subscription' = [subscription EXCEPT ![ws] = NoSubscription]
  /\ UNCHANGED <<alignVars, scriptVars, syncVars, segmenterVars, reconcileVars,
                 normalizerVars, clock, cleanupCall,
                 jobs, sockets, sent, lastGet, jobChanges,
                 completedWith, jobCalls>>

\* GET /jobs/:jobId
GetJob ==
  /\ \E jobId \in JobIds :
       /\ lastGet' = getJobResponse(jobId, jobs[jobId])
  /\ UNCHANGED <<alignVars, scriptVars, syncVars, segmenterVars, reconcileVars,
                 normalizerVars, clock, cleanupCall,
                 jobs, subscribers, subscriberKeys, sockets, sent, jobChanges,
                 subscription, completedWith, jobCalls>>

\* cleanupOldJobs: the call happens at some later time; the finished jobs
\* completed more than maxAgeMs before it are deleted.
CleanupOldJobs ==
  /\ jobCalls < MaxJobCalls
  /\ \E later \in clock..MaxClock, maxAgeMs \in 0..MaxClock :
       /\ clock' = later
       /\ jobs' = cleanupOldJobs(jobs, later, maxAgeMs)
       /\ cleanupCall' = [count |-> cleanupCall.count + 1, maxAgeMs |-> maxAgeMs,
                          removed |-> {id \in JobIds : jobs[id].exists
                                                        /\ ~jobs'[id].exists}]
       /\ lastGet' = IF lastGet.jobId \in JobIds /\ jobs'[lastGet.jobId] # jobs[lastGet.jobId]
                     THEN NoResponse ELSE lastGet
  /\ jobCalls' = jobCalls + 1
  /\ UNCHANGED <<alignVars, scriptVars, syncVars, segmenterVars, reconcileVars,
                 normalizerVars, subscribers, subscriberKeys, sockets, sent, jobChanges, subscription,
                 completedWith>>

JobNext ==
  \/ CreateScriptProcessingJob
  \/ UnsubscribeFromAllJobs
  \/ UpdateJobStatus
  \/ CompleteScriptProcessingJob
  \/ FailJob
  \/ OpenSocket
  \/ UnsubscribeCommand
  \/ CloseSocket
  \/ GetJob
  \/ CleanupOldJobs

SpecJob == JobInit /\ [][JobNext]_vars

(***************************************************************************)
(* JobService.cleanupOldJobs on a job service some time into its life.     *)
(***************************************************************************)
\* The times a job may carry in completedAt under each status: updateJobStatus
\* never clears it, so a job put back to processing keeps it.
CompletedAtOf(status) ==
  IF status = "pending" THEN {Undefined}
  ELSE IF status = "processing" THEN {Undefined} \cup (0..MaxClock)
  ELSE 0..MaxClock

\* The jobs the table may hold.
StoredJobs ==
  {NoJob} \cup
  { [exists |-> TRUE, status |-> status,
     progress |-> IF status = "completed" THEN 100 ELSE Undefined,
     message |-> IF status = "failed" THEN ErrorMessage ELSE "none",
     result |-> IF status = "completed" THEN 1 ELSE 0,
     completedAt |-> completedAt] :
    status \in JobStatus, completedAt \in 0..MaxClock \cup {Undefined} }

\* Any job table, the WebSockets subscribed to its jobs, and a clock that is
\* not before any completedAt.  The logs start here.
CleanupInit ==
  /\ clock \in 0..MaxClock
  /\ jobs \in [JobIds -> StoredJobs]
  /\ \A id \in JobIds :
       /\ jobs[id].exists => jobs[id].completedAt \in CompletedAtOf(jobs[id].status)
       /\ jobs[id].completedAt <= clock
  /\ sockets \in [Sockets -> {[state |-> "new", jobId |-> 0]}
                               \cup {[state |-> "open", jobId |-> id] : id \in JobIds}]
  /\ \A ws \in Sockets : \A earlier \in 1..(ws - 1) :
       sockets[ws].state = "open" => sockets[earlier].state = "open"
  /\ subscribers = [id \in JobIds |->
                      {ws \in Sockets : sockets[ws] = [state |-> "open", jobId |-> id]}]
  /\ subscriberKeys = {id \in JobIds : subscribers[id] # {}}
  /\ sent = [ws \in Sockets |-> <<>>]
  /\ lastGet = NoResponse
  /\ jobChanges = [id \in JobIds |-> <<>>]
  /\ subscription = [ws \in Sockets |-> NoSubscription]
  /\ completedWith = [id \in JobIds |-> 0]
  /\ jobCalls = 0
  /\ cleanupCall = NoCleanup
  /\ AlignIdle
  /\ ScriptIdle
  /\ SyncIdle
  /\ SegmenterIdle
  /\ ReconcileIdle
  /\ NormalizerIdle

CleanupNext == CleanupOldJobs

SpecCleanup == CleanupInit /\ [][CleanupNext]_vars

(***************************************************************************)
(* Claims about the alignment service and the sequence aligner.            *)
(***************************************************************************)
Cat == <<"c", "a", "t">>
Dog == <<"d", "o", "g">>
Fish == <<"f", "i", "s", "h">>

\* C5: alignSegmentsWithTranscript returns exactly one timing entry per input
\* segment, in input order, entry k carrying the text of segment k; this
\* holds after every iteration for the segments processed so far, for empty
\* segment lists, empty or unmatched segments and iterations that raise.
C5_OneEntryPerSegment ==
  /\ alignPc \in {"loop", "done"} =>
       /\ Len(results) = segmentIndex
       /\ \A k \in 1..Len(results) :
            k \in DOMAIN segments /\ results[k].text = segments[k]
  /\ alignPc = "done" => Len(results) = Len(segments)

C5_Witness ==
  /\ alignPc = "done"
  /\ Len(segments) >= 2
  /\ faults > 0
  /\ \E k \in 1..Len(segments) : tokenize(segments[k]) = <<>>
  /\ \E k \in 1..Len(segments) : segments[k] # normalizeText(segments[k])

\* C6: for segments i < j that both obtained alignments, every global
\* transcript index matched for j is at least (largest index matched for
\* i) + 1, and no transcript token is matched for both.
C6_CursorMonotone ==
  \A i, j \in 1..Len(matchedTargets) :
    (i < j /\ matchedTargets[i] # {} /\ matchedTargets[j] # {}) =>
      /\ \A t \in matchedTargets[j] : t >= SetMax(matchedTargets[i]) + 1
      /\ matchedTargets[i] \cap matchedTargets[j] = {}

C6_Witness ==
  /\ Len(matchedTargets) >= 2
  /\ matchedTargets[1] # {}
  /\ matchedTargets[2] # {}
  /\ Cardinality(matchedTargets[1]) >= 2

\* C7: the list returned by alignSequences has no two entries with the same
\* refIndex, no two with the same targetIndex, and is sorted by strictly
\* ascending refIndex.
C7_AlignmentsInjectiveSorted ==
  LET al == lastAlignCall.alignments
  IN \A k, l \in 1..Len(al) :
       k < l => /\ al[k].refIndex < al[l].refIndex
                /\ al[k].targetIndex # al[l].targetIndex

\* Two reference tokens had the same best target and one was dropped.
C7_Witness ==
  /\ lastAlignCall.called
  /\ Len(lastAlignCall.alignments) >= 1
  /\ Len(lastAlignCall.alignments) < Len(lastAlignCall.referenceTokens)
  /\ Len(lastAlignCall.targetTokens) >= 2

\* C8: every alignment returned for reference token r has the minimum edit
\* distance between r and any target token, at the lowest target index that
\* attains it; align([cat,dog],[dog,cat,fish]) is exactly
\* {ref 0,target 1,dist 0}, {ref 1,target 0,dist 0}.
C8_FirstMinimumDistance ==
  LET al == lastAlignCall.alignments
      ref == lastAlignCall.referenceTokens
      tgt == lastAlignCall.targetTokens
  IN /\ \A k \in 1..Len(al) :
          LET r == ref[al[k].refIndex + 1]
              least == SetMin({distance(r, tgt[t]) : t \in 1..Len(tgt)})
          IN /\ al[k].distance = least
             /\ al[k].targetIndex + 1 =
                  SetMin({t \in 1..Len(tgt) : distance(r, tgt[t]) = least})
     /\ (lastAlignCall.called /\ ref = <<Cat, Dog>> /\ tgt = <<Dog, Cat, Fish>>
         /\ faults = 0) =>
          al = << [refIndex |-> 0, targetIndex |-> 1, distance |-> 0],
                  [refIndex |-> 1, targetIndex |-> 0, distance |-> 0] >>

C8_Witness ==
  /\ lastAlignCall.called
  /\ lastAlignCall.referenceTokens = <<Cat, Dog>>
  /\ lastAlignCall.targetTokens = <<Dog, Cat, Fish>>
  /\ Len(lastAlignCall.alignments) = 2

(***************************************************************************)
(* Claims about timing reconciliation.                                     *)
(***************************************************************************)
Untimed(section) ==
  /\ section.sectionOffset = Undefined
  /\ section.sectionEndTime = Undefined
  /\ \A k \in 1..Len(section.points) :
       /\ section.points[k].startTime = Undefined
       /\ section.points[k].endTime = Undefined

\* C1: after synchronizeVoiceOverWithPoints has run on a section with n >= 2
\* points, the end time of point i equals the start time of point i+1 for
\* every i < n-1, whatever the raw timings and the section offset.
C1_AdjacentPointsContiguous ==
  syncOutcome = "returned" =>
    \A k \in 1..(Len(processedSection.points) - 1) :
      processedSection.points[k].endTime = processedSection.points[k + 1].startTime

\* Three points, an all-zero raw timing and one with a duration, an offset.
C1_Witness ==
  /\ syncOutcome = "returned"
  /\ Len(processedSection.points) >= 3
  /\ processedSection.sectionOffset > 0
  /\ \E k \in 1..Len(originalTimings) :
       originalTimings[k].startTime = 0 /\ originalTimings[k].endTime = 0
  /\ \E k \in 1..(Len(originalTimings) - 1) :
       originalTimings[k].endTime > originalTimings[k].startTime

\* C3: after reconcile of a section with at least one point, the last point's
\* end is its start plus the raw duration of the last raw timing plus exactly
\* 500 ms, and sectionEndTime is that end value.
C3_LastPointEndsWithBuffer ==
  (syncOutcome = "returned" /\ Len(processedSection.points) >= 1) =>
    LET n == Len(processedSection.points)
        last == processedSection.points[n]
    IN /\ Len(originalTimings) = n
       /\ last.endTime = last.startTime
                         + (originalTimings[n].endTime - originalTimings[n].startTime)
                         + 500
       /\ processedSection.sectionEndTime = last.endTime

C3_Witness ==
  /\ syncOutcome = "returned"
  /\ Len(processedSection.points) >= 2
  /\ originalTimings[Len(originalTimings)].endTime
       > originalTimings[Len(originalTimings)].startTime
  /\ originalTimings[Len(originalTimings)].startTime > 0

\* C9: a call to which no non-empty word-level transcription is available
\* raises an error and leaves the section as it was, without start/end
\* times, offset or end time; it does not return a timed section.
C9_NoWordsRaises ==
  [][ (syncCalls' = syncCalls + 1 /\ ~syncHadWords') =>
        /\ syncOutcome' \notin {"none", "returned"}
        /\ processedSection' = processedSection
        /\ (syncCalls = 0 => Untimed(processedSection')) ]_vars

\* The voice-over is complete, its transcription has no words: the call
\* raised and the section has no timing.
C9_Witness ==
  /\ syncCalls = 1
  /\ syncOutcome = "no word-level details"
  /\ ~syncHadWords
  /\ Len(processedSection.points) >= 2
  /\ Untimed(processedSection)

\* C2: after reconcile of a section, the point timings are non-decreasing:
\* every point has start <= end, and the start of point i is at most the
\* start of point i+1, for every raw timing list the matching step produces
\* from words ordered by time.
C2_TimingsNonDecreasing ==
  syncOutcome = "returned" =>
    LET points == processedSection.points
    IN \A k \in 1..Len(points) :
         /\ points[k].startTime <= points[k].endTime
         /\ k < Len(points) => points[k].startTime <= points[k + 1].startTime

(***************************************************************************)
(* Claims about processScript.                                             *)
(***************************************************************************)
\* C4: in a processScript run with voice-over and syncAudio, for every two
\* consecutive reconciled sections the sectionOffset of the later one equals
\* the sectionEndTime recorded for the earlier one, and the first point of
\* the later section starts there.
C4_SectionsContinuous ==
  (request.generateVoiceOver /\ request.syncAudio) =>
    \A k \in 1..(Len(processedSections) - 1) :
      LET earlier == processedSections[k]
          later == processedSections[k + 1]
      IN /\ later.sectionOffset = earlier.sectionEndTime
         /\ Len(later.points) > 0 => later.points[1].startTime = earlier.sectionEndTime

\* Two sections were reconciled, each with points.
C4_Witness ==
  /\ request.generateVoiceOver
  /\ request.syncAudio
  /\ Len(processedSections) = 2
  /\ Len(processedSections[1].points) >= 2
  /\ Len(processedSections[2].points) >= 1
  /\ processedSections[2].sectionOffset > SECTION_END_BUFFER

\* C10: when transcription or timing reconciliation fails for a section in
\* voice-over mode, the result of processScript still contains that section
\* as an untimed, video-only section.
C10_FailedSectionKeptUntimed ==
  (pc = "done" /\ request.generateVoiceOver) =>
    \A failed \in failedSections :
      \E k \in 1..Len(result) :
        /\ result[k].sectionId = failed
        /\ Untimed(result[k])


(***************************************************************************)
(* Claims about the transcript segmenter.                                  *)
(***************************************************************************)
\* The identifiers and points of a list of sections.
idsAndPoints(sections) ==
  [k \in 1..Len(sections) |-> [id |-> sections[k].id, points |-> sections[k].points]]

\* C11: a point findBestMatch does not find is kept: the sections returned
\* by segmentSectionTranscript and by segmentTranscript hold exactly the
\* non-empty input points in input order, no section and no point dropped.
C11_UnmatchedPointsKept ==
  /\ segmenterCall = "segmentSectionTranscript" =>
       idsAndPoints(segmenterOutput)
         = <<[id |-> segmenterSection.id,
              points |-> SelectSeq(segmenterSection.points, NonEmpty)]>>
  /\ segmenterCall = "segmentTranscript" =>
       idsAndPoints(segmenterOutput)
         = idsAndPoints(extractPointsFromSections(parseScriptIntoSections(segmenterScript)))


(***************************************************************************)
(* Claims about the raw boundaries in timing reconciliation.               *)
(***************************************************************************)
\* The reconciled times of a section.
reconciledTimes(section) ==
  [points |-> [k \in 1..Len(section.points) |->
                 [startTime |-> section.points[k].startTime,
                  endTime |-> section.points[k].endTime]],
   sectionEndTime |-> section.sectionEndTime]

\* The raw duration of the last entry of a raw timing list.
lastRawDuration(timings) ==
  timings[Len(timings)].endTime - timings[Len(timings)].startTime

\* C12: two reconciliations of the same section with the same section
\* offset, whose raw timing lists agree on the last entry's duration, give
\* every point the same start and end time and the section the same
\* sectionEndTime, whatever the other raw starts and ends are.
C12_RawInteriorDiscarded ==
  ( /\ Len(reconcileRaw) = 2
    /\ Len(reconcileRaw[1]) > 0
    /\ Len(reconcileRaw[1]) = Len(reconcileRaw[2])
    /\ lastRawDuration(reconcileRaw[1]) = lastRawDuration(reconcileRaw[2]) )
  => reconciledTimes(reconcileOut[1]) = reconciledTimes(reconcileOut[2])


(***************************************************************************)
(* Claims about segment timing and the cursor.                             *)
(***************************************************************************)
\* C13: every timing entry alignSegmentsWithTranscript returns has
\* startTime >= 0, endTime >= startTime and duration = endTime - startTime,
\* the transcript words being ordered in time with start <= end.
C13_TimingEntriesWellFormed ==
  \A k \in 1..Len(results) :
    /\ results[k].startTime >= 0
    /\ results[k].endTime >= results[k].startTime
    /\ results[k].duration = results[k].endTime - results[k].startTime

C13_Witness ==
  /\ alignPc = "done"
  /\ Len(results) = 2
  /\ \E k \in 1..2 : results[k].duration > 0 /\ Cardinality(matchedTargets[k]) >= 2
  /\ \E k \in 1..2 : results[k].duration = 0

\* The global target indices of the alignments found in the step at hand:
\* the window-relative indices of the alignSequences call plus the cursor
\* the window started from.
stepTargets ==
  IF matchedTargets'[Len(matchedTargets')] = {} THEN {}
  ELSE {lastAlignCall'.alignments[k].targetIndex + currentTranscriptIndex
          : k \in 1..Len(lastAlignCall'.alignments)}

\* The step at hand is one iteration of the loop over the segments.
iterationStep == alignPc = "loop" /\ segmentIndex' = segmentIndex + 1

\* C19: the timing of a segment is the start of the word at the smallest
\* matched global target index and the end of the word at the largest; it
\* is all zero, nothing being raised, when there is no alignment or one of
\* the two indices has no timed word.
C19_TimingFromFirstAndLastWord ==
  [][iterationStep =>
       LET entry == results'[Len(results')]
           timing == [startTime |-> entry.startTime, endTime |-> entry.endTime,
                      duration |-> entry.duration]
       IN IF stepTargets = {} THEN timing = ZeroTiming
          ELSE /\ faults' = faults
               /\ IF SetMin(stepTargets) + 1 \in DOMAIN transcriptWords
                     /\ SetMax(stepTargets) + 1 \in DOMAIN transcriptWords
                  THEN /\ entry.startTime = transcriptWords[SetMin(stepTargets) + 1].start
                       /\ entry.endTime = transcriptWords[SetMax(stepTargets) + 1].end
                  ELSE timing = ZeroTiming]_vars

\* A segment timed from words past the start of the transcript, and a
\* segment matched to a token that has no timed word.
C19_Witness ==
  /\ alignPc = "done"
  /\ Len(results) = 2
  /\ \E k \in 1..2 :
       /\ matchedTargets[k] # {}
       /\ SetMin(matchedTargets[k]) > 0
       /\ SetMax(matchedTargets[k]) + 1 \in DOMAIN transcriptWords
       /\ results[k].endTime > 0
  /\ \E k \in 1..2 :
       /\ matchedTargets[k] # {}
       /\ SetMax(matchedTargets[k]) + 1 \notin DOMAIN transcriptWords
       /\ results[k].endTime = 0

\* C20: an iteration that ends in a placeholder (no segment tokens, no
\* transcript tokens left, no alignment, or an error) leaves the cursor where
\* it was; otherwise the cursor becomes the largest matched global target
\* index plus one.
C20_CursorMovesOnlyPastMatches ==
  [][iterationStep =>
       currentTranscriptIndex' =
         IF stepTargets = {} THEN currentTranscriptIndex
         ELSE SetMax(stepTargets) + 1]_vars

\* A first segment that moved the cursor, then a segment without alignment
\* although transcript tokens remain.
C20_Witness ==
  /\ alignPc = "done"
  /\ Len(segments) = 2
  /\ matchedTargets[1] # {}
  /\ matchedTargets[2] = {}
  /\ tokenize(normalizeText(segments[2])) # <<>>
  /\ currentTranscriptIndex = SetMax(matchedTargets[1]) + 1
  /\ currentTranscriptIndex < Len(transcriptTokens)


(***************************************************************************)
(* Claims about the text normalizer.                                       *)
(***************************************************************************)
\* C14: tokenize never returns an empty-string element, whatever the text:
\* empty, nothing but whitespace, nothing but stripped punctuation.
C14_NoEmptyToken ==
  normalizerCall = "tokenize" => \A k \in 1..Len(tokens) : tokens[k] # <<>>

\* tokenize of a text made of stripped punctuation and whitespace only.
C14_Witness ==
  /\ normalizerCall = "tokenize"
  /\ tokens = <<>>
  /\ \E i \in 1..Len(normalizerText) : normalizerText[i] \in Punctuation
  /\ \E i \in 1..Len(normalizerText) : normalizerText[i] \in Whitespace

\* C15: normalizeText is idempotent: normalizeText(normalizeText(x)) equals
\* normalizeText(x) for every text x.
C15_NormalizeIdempotent ==
  normalizerCall = "normalizeText twice" => normalizedAgain = normalized


(***************************************************************************)
(* Claims about the job service.                                           *)
(***************************************************************************)
\* C16: an update sent to a WebSocket and the response of GET /jobs/:jobId
\* carry a result only while the job is completed; once
\* completeScriptProcessingJob has made the job completed, the update sent
\* to every subscriber of the job and the response of a GET carry the
\* result of that call.
C16_ResultOnlyWhenCompleted ==
  /\ \A ws \in Sockets : \A k \in 1..Len(sent[ws]) :
       sent[ws][k].result # 0 => sent[ws][k].status = "completed"
  /\ lastGet.result # 0 => lastGet.status = "completed"
  /\ \A jobId \in JobIds :
       (jobs[jobId].exists /\ jobs[jobId].status = "completed") =>
         /\ \A ws \in subscribers[jobId] :
              /\ sent[ws] # <<>>
              /\ sent[ws][Len(sent[ws])].status = "completed"
              /\ sent[ws][Len(sent[ws])].result = completedWith[jobId]
         /\ (lastGet.success /\ lastGet.jobId = jobId) =>
              /\ lastGet.status = "completed"
              /\ lastGet.result = completedWith[jobId]

\* A job completed twice, with two results: its subscriber has been sent
\* both and the later one last, which the response of a GET carries too.
C16_Witness ==
  /\ jobs[1].status = "completed"
  /\ completedWith[1] # 0
  /\ lastGet.success
  /\ lastGet.result = completedWith[1]
  /\ \E ws \in subscribers[1] :
       /\ \E k \in 1..Len(sent[ws]) : sent[ws][k].status = "completed"
                                        /\ sent[ws][k].result # completedWith[1]
       /\ sent[ws][Len(sent[ws])].result = completedWith[1]

\* The updates a WebSocket has been sent since it subscribed.
sentSince(ws) == SubSeq(sent[ws], subscription[ws].sentBefore + 1, Len(sent[ws]))

\* The states the job of a WebSocket has taken since the socket subscribed.
changesSince(ws) ==
  SubSeq(jobChanges[subscription[ws].jobId], subscription[ws].changesBefore + 1,
         Len(jobChanges[subscription[ws].jobId]))

\* C17: a WebSocket that subscribed to an existing job and is still
\* subscribed has been sent the state the job had then, followed by exactly
\* one update for every updateJobStatus, completeScriptProcessingJob and
\* failJob on the job since, in their order; so it has been sent the
\* terminal update of a job that finished after it subscribed.
C17_SubscriberSeesEveryChange ==
  \A ws \in Sockets :
    ( /\ subscription[ws].job.exists
      /\ ws \in subscribers[subscription[ws].jobId] )
    => /\ sentSince(ws)
            = <<jobUpdate(subscription[ws].jobId, subscription[ws].job)>>
              \o [k \in 1..Len(changesSince(ws)) |->
                    jobUpdate(subscription[ws].jobId, changesSince(ws)[k])]
       /\ ( /\ jobs[subscription[ws].jobId].status \in {"completed", "failed"}
            /\ subscription[ws].job.status \notin {"completed", "failed"} )
          => \E k \in 1..Len(sentSince(ws)) :
               sentSince(ws)[k].status \in {"completed", "failed"}

\* Two sockets subscribed to a job at different moments, both still
\* subscribed when the job completes.
C17_Witness ==
  /\ \A ws \in Sockets : ws \in subscribers[1] /\ subscription[ws].job.exists
  /\ subscription[1].changesBefore # subscription[2].changesBefore
  /\ jobs[1].status = "completed"
  /\ \A ws \in Sockets : Len(sentSince(ws)) >= 2

\* The points of the sections, one section after the other.
RECURSIVE returnedPoints(_, _)
returnedPoints(sections, k) ==
  IF k > Len(sections) THEN <<>>
  ELSE sections[k].points \o returnedPoints(sections, k + 1)

\* C18: processScript without voice-over generation returns one processed
\* section per parsed section, in order and with the section's id; each
\* holds one point per extracted point, in order, with the point's text and
\* the id, url and thumbnail of the video the search returned for it, or
\* empty strings when the search returned none; the video search has been
\* called once per point.
C18_DirectResultMirrorsScript ==
  (pc = "done" /\ ~request.generateVoiceOver)
  => LET parsed == parseScriptIntoSections(script)
         returned == returnedPoints(result, 1)
     IN /\ Len(result) = Len(parsed)
        /\ \A k \in 1..Len(parsed) :
             /\ result[k].sectionId = parsed[k].id
             /\ Len(result[k].points) = Len(splitSection(parsed[k].text))
             /\ \A i \in 1..Len(result[k].points) :
                  result[k].points[i].text = splitSection(parsed[k].text)[i]
        /\ Len(videoSearches) = Len(returned)
        /\ \A n \in 1..Len(returned) :
             /\ videoSearches[n].query = returned[n].text
             /\ IF videoSearches[n].video.found
                THEN /\ returned[n].videoId = videoSearches[n].video.id
                     /\ returned[n].videoUrl = videoSearches[n].video.url
                     /\ returned[n].videoThumbnail = videoSearches[n].video.image
                ELSE /\ returned[n].videoId = <<>>
                     /\ returned[n].videoUrl = <<>>
                     /\ returned[n].videoThumbnail = <<>>

\* A script of two sections with two points each went through the direct
\* flow; the search found a video for one point of a section and none for
\* the other.
C18_Witness ==
  /\ pc = "done"
  /\ ~request.generateVoiceOver
  /\ Len(result) = 2
  /\ \A k \in 1..2 : Len(result[k].points) = 2
  /\ result[1].points[1].videoId # <<>>
  /\ result[1].points[2].videoId = <<>>
  /\ Len(videoSearches) = 4

\* C29: findBestMatch returns -1 or an index at or after startPosition,
\* whichever of the exact, short-phrase and fuzzy branches answers.
C29_MatchNotBeforeStart ==
  segmenterCall = "findBestMatch"
  => \/ segmenterMatch.index = -1
     \/ segmenterMatch.index >= segmenterMatch.startPosition

\* The occurrences of word in text from searchPos on, each search resuming
\* after the previous occurrence.
RECURSIVE occurrencesFrom(_, _, _)
occurrencesFrom(text, word, searchPos) ==
  IF indexOfFrom(text, word, searchPos) = -1 THEN <<>>
  ELSE <<indexOfFrom(text, word, searchPos)>>
       \o occurrencesFrom(text, word, indexOfFrom(text, word, searchPos) + Len(word))

\* The context windows of the occurrences of the words from word k on, in
\* the order of the search.
RECURSIVE windowsFrom(_, _, _, _, _, _)
windowsFrom(normalizedPoint, normalizedTranscript, wordsToUse, k, startPosition, roundsUp) ==
  IF k > Len(wordsToUse) THEN <<>>
  ELSE [i \in 1..Len(occurrencesFrom(normalizedTranscript, wordsToUse[k], startPosition)) |->
          windowAt(normalizedPoint, normalizedTranscript,
                   occurrencesFrom(normalizedTranscript, wordsToUse[k], startPosition)[i],
                   roundsUp)]
       \o windowsFrom(normalizedPoint, normalizedTranscript, wordsToUse, k + 1,
                      startPosition, roundsUp)

\* All the windows the fuzzy search of the recorded call could look at.
matchWindows ==
  windowsFrom(segmenterNormalizeText(segmenterMatch.point),
              segmenterNormalizeText(segmenterTranscript),
              wordsToUseOf(splitOn(segmenterNormalizeText(segmenterMatch.point),
                                   {" "}, <<>>)),
              1, segmenterMatch.startPosition, segmenterMatch.roundsUp)

\* The windows it examined: up to the first one scoring above 0.7.
firstStop(windows) == SetMin({k \in 1..Len(windows) : windows[k].stop} \cup {Len(windows)})

examinedWindows == SubSeq(matchWindows, 1, firstStop(matchWindows))

\* C30: when neither the exact nor the short-phrase search hits,
\* findBestMatch returns -1 if no examined window scores above 0.4, else the
\* start of an examined window that scores above 0.4 and at least as high
\* as every examined window; the search stops at the first window scoring
\* above 0.7, whose start is then returned.
C30_BestWindowAboveThreshold ==
  (segmenterCall = "findBestMatch" /\ segmenterMatch.branch = "fuzzy")
  => LET accepted == {k \in 1..Len(examinedWindows) :
                        scoreAbove(examinedWindows[k].similarity, AcceptThreshold,
                                   segmenterMatch.roundsUp)}
     IN /\ accepted = {} => segmenterMatch.index = -1
        /\ accepted # {} =>
             \E k \in accepted :
               /\ segmenterMatch.index = examinedWindows[k].index
               /\ \A j \in 1..Len(examinedWindows) :
                    examinedWindows[j].similarity.num * examinedWindows[k].similarity.den
                      <= examinedWindows[k].similarity.num
                           * examinedWindows[j].similarity.den
        /\ \A k \in 1..Len(examinedWindows) :
             examinedWindows[k].stop
             => segmenterMatch.index = examinedWindows[k].index

\* The search stopped at a window above 0.7 although a window further on,
\* starting elsewhere, scores higher.
C30_Witness ==
  /\ segmenterCall = "findBestMatch"
  /\ segmenterMatch.branch = "fuzzy"
  /\ Len(examinedWindows) < Len(matchWindows)
  /\ segmenterMatch.index = examinedWindows[Len(examinedWindows)].index
  /\ \E j \in (Len(examinedWindows) + 1)..Len(matchWindows) :
       /\ matchWindows[j].index # segmenterMatch.index
       /\ matchWindows[j].similarity.num
            * examinedWindows[Len(examinedWindows)].similarity.den
          > examinedWindows[Len(examinedWindows)].similarity.num
            * matchWindows[j].similarity.den

\* C22: an iteration in which the distance function or another step raises
\* appends one zero-timing entry for its segment and nothing else: the
\* entries of the earlier segments stay, the cursor stays, and the loop goes
\* on with the next segment from the state an unmatched segment leaves.
C22_FailureIsLocal ==
  [][faults' > faults =>
       /\ results' = results \o <<[text |-> segments[segmentIndex + 1], startTime |-> 0,
                                    endTime |-> 0, duration |-> 0]>>
       /\ results' = results \o unmatchedSegment(segments[segmentIndex + 1]).pushed
       /\ currentTranscriptIndex' = currentTranscriptIndex
       /\ segmentIndex' = segmentIndex + 1
       /\ alignPc' = "loop"
       /\ UNCHANGED <<segments, transcriptText, transcriptWords, transcriptTokens>>]_vars

\* The iteration of the first segment raised and the second segment was
\* aligned all the same.
C22_Witness ==
  /\ alignPc = "done"
  /\ faults > 0
  /\ Len(segments) = 2
  /\ tokenize(normalizeText(segments[1])) # <<>>
  /\ results[1] = [text |-> segments[1], startTime |-> 0, endTime |-> 0, duration |-> 0]
  /\ matchedTargets[2] # {}
  /\ results[2].endTime > 0


\* C28: a cleanupOldJobs(maxAgeMs) call removes a job exactly when its status
\* is completed or failed and its completedAt lies more than maxAgeMs before
\* the time of the call; every other job, pending, processing or finished
\* more recently, stays as it was, and so does every subscriber set.
C28_CleanupRemovesExactlyOldFinished ==
  [][cleanupCall'.count > cleanupCall.count =>
       /\ \A id \in JobIds :
            jobs'[id] = IF /\ jobs[id].exists
                           /\ jobs[id].status \in {"completed", "failed"}
                           /\ clock' - jobs[id].completedAt > cleanupCall'.maxAgeMs
                        THEN NoJob ELSE jobs[id]
       /\ subscribers' = subscribers]_vars

\* A call removed job 1, which had a subscriber, and kept job 2, which had
\* been put back to processing after it finished long ago.
C28_Witness ==
  /\ cleanupCall.removed = {1}
  /\ subscribers[1] # {}
  /\ jobs[2].status = "processing"
  /\ jobs[2].completedAt # Undefined
  /\ clock - jobs[2].completedAt > cleanupCall.maxAgeMs

\* The updates for the job passed to the WebSocket's send in this step.
updatesSentNow(ws, jobId) ==
  {i \in (Len(sent[ws]) + 1)..Len(sent'[ws]) : sent'[ws][i].jobId = jobId}

\* C27: a step that removes a WebSocket from a job's subscribers leaves the
\* other subscribers of the job in place and no entry with an empty set in
\* the subscriber map; a WebSocket that is not subscribed to a job before a
\* step and not after it is sent no update for that job in the step; and a
\* step that changes a job sends its new state once to each subscriber.
C27_UnsubscribedGetsNoUpdates ==
  [][\A ws \in Sockets, jobId \in JobIds :
       /\ (ws \in subscribers[jobId] /\ ws \notin subscribers'[jobId]) =>
            /\ subscribers'[jobId] = subscribers[jobId] \ {ws}
            /\ \A id \in subscriberKeys' : subscribers'[id] # {}
       /\ (ws \notin subscribers[jobId] /\ ws \notin subscribers'[jobId]) =>
            updatesSentNow(ws, jobId) = {}
       /\ (ws \in subscribers[jobId] /\ jobChanges[jobId] # <<>>
           /\ Len(jobChanges'[jobId]) > Len(jobChanges[jobId])) =>
            sent'[ws] = Append(sent[ws], jobUpdate(jobId, jobs'[jobId]))]_vars

\* WebSocket 1 unsubscribed from job 1 and stayed open, the entry of job 1
\* still holds WebSocket 2, and WebSocket 2 has since been sent a change
\* that WebSocket 1 was not sent.
C27_Witness ==
  /\ sockets[1] = [state |-> "open", jobId |-> 1]
  /\ subscribers[1] = {2}
  /\ subscriberKeys = {1}
  /\ Len(sent[1]) = 1
  /\ Len(sent[2]) = 2
  /\ sent[2][2].status = "processing"

\* C24: once generateVoiceOver has stored the record of a voice-over and
\* its webhook has been handled, the stored status is not pending.
C24_WebhookNotLost ==
  \A uuid \in DOMAIN voiceOvers :
    uuid \notin webhooks => voiceOvers[uuid].status # "pending"

\* The voice-over the loop of waitForVoiceOverCompletion is polling for.
polledVoiceOver == getVoiceOver(Len(voiceOvers))

\* The section of the script the voice-over loop is at.
sectionAtHand == sectionIndex + 1

\* C23: while waitForVoiceOverCompletion is waiting for a voice-over that
\* updateVoiceOverStatus has marked completed, its next poll returns the
\* voice-over, and the wait ends with the section paired to it; when it has
\* been marked failed, the next poll returns null, and the wait ends with
\* the section left out.
C23_WaitEndsOnceMarked ==
  /\ [](pc = "wait" =>
          /\ polledVoiceOver.status = "completed" =>
               pollResult(polledVoiceOver) = "voiceOver"
          /\ polledVoiceOver.status = "failed" =>
               pollResult(polledVoiceOver) = "null")
  /\ \A n \in 1..MaxSections :
       /\ (pc = "wait" /\ sectionAtHand = n /\ polledVoiceOver.status = "completed")
            ~> (sectionIndex >= n
                /\ \E k \in DOMAIN sectionsWithVoiceOvers :
                     sectionsWithVoiceOvers[k].section = n)
       /\ (pc = "wait" /\ sectionAtHand = n /\ polledVoiceOver.status = "failed")
            ~> (sectionIndex >= n
                /\ \A k \in DOMAIN sectionsWithVoiceOvers :
                     sectionsWithVoiceOvers[k].section # n)

\* The wait for the second section ended after its voice-over failed, the
\* first section's having completed.
C23_Witness ==
  /\ Len(voiceOvers) = 2
  /\ voiceOvers[1].status = "completed"
  /\ voiceOvers[2].status = "failed"
  /\ sectionIndex = 2
  /\ pc = "generate"
  /\ Len(sectionsWithVoiceOvers) = 1
  /\ sectionsWithVoiceOvers[1].section = 1

\* The statuses the job of the request has gone through, in order.
statusHistory ==
  [k \in 1..Len(jobChanges[JobOfRequest]) |-> jobChanges[JobOfRequest][k].status]

\* C26: the statuses of the job of a request are a beginning of pending,
\* processing, completed or of pending, processing, failed; the stored job
\* is the last of them; completedAt is set in a state of the job exactly
\* when its status is completed or failed; and when the background
\* processing has ended the job has been completed or failed exactly once.
C26_JobStatusSequence ==
  /\ \E end \in {"completed", "failed"} :
       \E n \in 0..3 :
         statusHistory = SubSeq(<<"pending", "processing", end>>, 1, n)
  /\ jobs[JobOfRequest].exists =>
       jobs[JobOfRequest] = jobChanges[JobOfRequest][Len(jobChanges[JobOfRequest])]
  /\ \A k \in DOMAIN jobChanges[JobOfRequest] :
       (jobChanges[JobOfRequest][k].completedAt # Undefined)
         <=> (jobChanges[JobOfRequest][k].status \in {"completed", "failed"})
  /\ pc = "finished" => Len(statusHistory) = 3
  /\ (completedWith[JobOfRequest] # 0) => statusHistory[3] = "completed"

\* The job failed after scriptService.processScript had returned sections.
C26_Witness ==
  /\ pc = "finished"
  /\ jobs[JobOfRequest].status = "failed"
  /\ jobs[JobOfRequest].completedAt # Undefined
  /\ Len(result) > 0

\* C25: a job that has been created is in the end completed or failed.
C25_JobEventuallyFinishes ==
  jobs[JobOfRequest].exists
    ~> (jobs[JobOfRequest].status \in {"completed", "failed"})

\* The sections whose iteration of the processing loop has ended: pushed to
\* processedSections, or skipped after a failure.
endedSections ==
  {processedSections[k].sectionId : k \in DOMAIN processedSections} \cup failedSections

\* C21: a step that reconciles the timings of a section is taken with the
\* transcript of that section at hand; every section before it in script
\* order that has a voice-over has ended its iteration, processed or
\* failed, and no section after it has; the step ends the iteration of the
\* section and of no other.
C21_SectionsReconciledInOrder ==
  [][syncCalls' = syncCalls + 1 =>
       LET pairs == sectionsWithVoiceOvers
           section == pairs[stepIndex].section
       IN /\ pc = "sync"
          /\ transcript.given /\ Len(transcript.text) > 0
          /\ processedSection.sectionId = section
          /\ \A k \in DOMAIN pairs :
               /\ k < stepIndex => (pairs[k].section < section
                                     /\ pairs[k].section \in endedSections)
               /\ k > stepIndex => (pairs[k].section > section
                                     /\ pairs[k].section \notin endedSections)
          /\ section \notin endedSections
          /\ endedSections' = endedSections \cup {section}
          /\ stepIndex' = stepIndex + 1]_vars

\* The second section has been reconciled after the iteration of the first
\* one had ended in a failure.
C21_Witness ==
  /\ request.syncAudio
  /\ Len(sectionsWithVoiceOvers) = 2
  /\ stepIndex = 3
  /\ syncCalls = 1
  /\ syncOutcome \notin {"none", "threw"}
  /\ failedSections = {1}
  /\ Len(processedSections) = 1
  /\ processedSections[1].sectionId = 2
====
